---- MODULE Spec2Model ----
(***************************************************************************)
(* Billing of the dhanam API (apps/api billing module): webhook            *)
(* processing, checkout orchestration and the read paths.                  *)
(*                                                                         *)
(* State: the User rows (billing fields only), the BillingEvent ledger,   *)
(* the process configuration, a wall clock, a record describing how the    *)
(* most recent webhook request was answered, the checkout calls in flight, *)
(* what the payment providers have been asked to create, the audit        *)
(* entries of the checkout operations, the usage counters, the outcome of  *)
(* the most recent API call and the feature invocations in flight.         *)
(*                                                                         *)
(* Spec: one action per webhook endpoint. StripeWebhook models            *)
(* BillingController.handleWebhook together with the BillingService        *)
(* handler it awaits; JanuaWebhook models handleJanuaWebhook likewise.     *)
(* ApiSpec: the checkout operations, one action per await of theirs that   *)
(* other calls can interleave with, and the read paths.                    *)
(*                                                                         *)
(* Dates are sequences: <<>> is null, <<ms>> is new Date(ms).              *)
(* Monetary inputs are multiples of 100 minor units so that the code's     *)
(* x / 100 is exact.                                                       *)
(***************************************************************************)
EXTENDS Integers, Sequences, FiniteSets, Bags, TLC

VARIABLES
    users,      \* User rows: [Users -> billing fields]
    ledger,     \* BillingEvent rows in creation order
    config,     \* ConfigService values read by the webhook endpoints
    clock,      \* wall clock, in seconds since the epoch
    nreq,       \* number of HTTP requests served so far
    last,       \* how the most recent request was handled and answered
    calls,      \* bag of the checkout calls that are between two awaits
    ncalls,     \* number of API calls started so far
    created,    \* customers the providers have created, in creation order
    sessions,   \* checkout sessions the providers have been asked for
    auditLog,   \* audit entries written by the checkout operations
    usage,      \* UsageMetric rows: [userId, metricType, date] -> count
    done,       \* outcome of the most recent API call
    invs,       \* bag of the feature invocations between their check and record
    ninv,       \* number of usage calls and feature invocations started so far
    hooks,      \* webhook handlers that are at an await, not yet answered
    notes       \* calls made to the identity system, in the order they started

hookVars == <<hooks, notes>>

apiVars == <<calls, ncalls, created, sessions, auditLog, usage, done, invs, ninv,
             hooks, notes>>

vars == <<users, ledger, config, clock, nreq, last,
          calls, ncalls, created, sessions, auditLog, usage, done, invs, ninv,
          hooks, notes>>

----------------------------------------------------------------------------
(* Bounds *)

MaxRequests == 2
MaxClock == 1
MaxCalls == 2
MaxInvocations == 5
MaxInFlight == 2

----------------------------------------------------------------------------
(* Value universes *)

Null == "null"
NullDate == <<>>

Users == {"u1", "u2"}
CheckoutPlans == {"essentials", "essentials_yearly", "pro", "pro_yearly", "bogus", Null}
PeriodStarts == {1}
PeriodEnds == {2, 3}
Amounts == {500}
JanuaProviders == {"conekta"}
Tiers == {"community", "essentials", "pro"}

\* new Date(seconds * 1000)
FromUnix(s) == <<s * 1000>>

\* new Date()
Now(c) == <<c * 1000>>


----------------------------------------------------------------------------
(* Storage layer *)

UserFields == {"subscriptionTier", "subscriptionStartedAt", "subscriptionExpiresAt",
               "stripeSubscriptionId", "stripeCustomerId", "januaCustomerId",
               "billingProvider"}

NoData == [f \in {} |-> Null]
NoRow == [f \in {} |-> Null]

\* A user record as read by a handler that has not looked anyone up yet.
NoUser == [f \in UserFields |-> Null]

\* prisma.user.update({ data }): the fields named in data are overwritten.
Merge(user, data) ==
    [f \in DOMAIN user |-> IF f \in DOMAIN data THEN data[f] ELSE user[f]]

\* User.stripeCustomerId is a unique column (it is the key of findUnique):
\* an update that would give two users the same customer id is refused.
CustomerIdTaken(us, u, data) ==
    /\ "stripeCustomerId" \in DOMAIN data
    /\ data.stripeCustomerId # Null
    /\ \E v \in Users \ {u} : us[v].stripeCustomerId = data.stripeCustomerId

\* BillingEvent.stripeEventId is unique at the storage layer: a second row
\* with an event id that is already recorded is refused.
EventIdTaken(lg, row) ==
    \E i \in 1..Len(lg) : lg[i].stripeEventId = row.stripeEventId

\* prisma.user.findUnique / findFirst: the users a lookup can return.
Matches(us, find, key) ==
    IF find = "id" THEN {u \in Users : u = key}
    ELSE {u \in Users : key # Null /\ us[u][find] = key}

----------------------------------------------------------------------------
(* BillingService webhook handlers.                                        *)
(* Each handler is given as what it looks up (find, key), the storage      *)
(* calls it awaits in order (steps), the data of its user.update, the row  *)
(* of its billingEvent.create, and the number of audit.log calls.          *)
(* find = "none" means the handler returns before any lookup.              *)

handleSubscriptionCreated(event, uid, user) ==
    [find  |-> "stripeCustomerId",
     key   |-> event.customer,
     steps |-> <<"update", "create">>,
     data  |-> [subscriptionTier |-> "pro",
                subscriptionStartedAt |-> FromUnix(event.current_period_start),
                subscriptionExpiresAt |-> FromUnix(event.current_period_end),
                stripeSubscriptionId |-> event.subscription],
     row   |-> [userId |-> uid, type |-> "subscription_created",
                amount |-> event.amount \div 100, status |-> "succeeded",
                stripeEventId |-> event.id],
     audit |-> 1]

\* An update handler that looks the subscriber up by the subscription id, so
\* that an update for a subscription not stored yet finds nobody.
handleSubscriptionUpdated_needsSubscription(event, uid, user) ==
    [find  |-> "stripeSubscriptionId",
     key   |-> event.subscription,
     steps |-> <<"update">>,
     data  |-> [subscriptionExpiresAt |-> FromUnix(event.current_period_end)],
     row   |-> NoRow,
     audit |-> 0]

\* An update handler that also re-grants the paid tier.
handleSubscriptionUpdated_setsTier(event, uid, user) ==
    [find  |-> "stripeCustomerId",
     key   |-> event.customer,
     steps |-> <<"update">>,
     data  |-> [subscriptionTier |-> "pro",
                subscriptionExpiresAt |-> FromUnix(event.current_period_end)],
     row   |-> NoRow,
     audit |-> 0]

handleSubscriptionUpdated(event, uid, user) ==
    [find  |-> "stripeCustomerId",
     key   |-> event.customer,
     steps |-> <<"update">>,
     data  |-> [subscriptionExpiresAt |-> FromUnix(event.current_period_end)],
     row   |-> NoRow,
     audit |-> 0]

handleSubscriptionCancelled(event, uid, user) ==
    [find  |-> "stripeCustomerId",
     key   |-> event.customer,
     steps |-> <<"update", "create">>,
     data  |-> [subscriptionTier |-> "community",
                subscriptionExpiresAt |-> NullDate,
                stripeSubscriptionId |-> Null],
     row   |-> [userId |-> uid, type |-> "subscription_cancelled",
                amount |-> 0, status |-> "succeeded",
                stripeEventId |-> event.id],
     audit |-> 1]

handlePaymentSucceeded(event, uid, user) ==
    [find  |-> "stripeCustomerId",
     key   |-> event.customer,
     steps |-> <<"create">>,
     data  |-> NoData,
     row   |-> [userId |-> uid, type |-> "payment_succeeded",
                amount |-> event.amount \div 100, status |-> "succeeded",
                stripeEventId |-> event.id],
     audit |-> 0]

\* A payment-failed handler that downgrades the subscriber at once.
handlePaymentFailed_revokes(event, uid, user) ==
    [find  |-> "stripeCustomerId",
     key   |-> event.customer,
     steps |-> <<"create", "update">>,
     data  |-> [subscriptionTier |-> "community"],
     row   |-> [userId |-> uid, type |-> "payment_failed",
                amount |-> event.amount \div 100, status |-> "failed",
                stripeEventId |-> event.id],
     audit |-> 1]

handlePaymentFailed(event, uid, user) ==
    [find  |-> "stripeCustomerId",
     key   |-> event.customer,
     steps |-> <<"create">>,
     data  |-> NoData,
     row   |-> [userId |-> uid, type |-> "payment_failed",
                amount |-> event.amount \div 100, status |-> "failed",
                stripeEventId |-> event.id],
     audit |-> 1]

\* A plan map that lacks the yearly slugs.
PLAN_TIER_MAP_monthlyOnly(plan) ==
    CASE plan = "essentials" -> "essentials"
      [] plan = "pro" -> "pro"
      [] OTHER -> Null

\* PLAN_TIER_MAP[plan], or Null when the slug is not a key of the map.
PLAN_TIER_MAP(plan) ==
    CASE plan = "essentials" -> "essentials"
      [] plan = "essentials_yearly" -> "essentials"
      [] plan = "pro" -> "pro"
      [] plan = "pro_yearly" -> "pro"
      [] OTHER -> Null

\* (plan && PLAN_TIER_MAP[plan]) || 'pro'
CheckoutTier(plan) ==
    IF plan # Null /\ PLAN_TIER_MAP(plan) # Null THEN PLAN_TIER_MAP(plan) ELSE "pro"

handleCheckoutCompleted(event, uid, user) ==
    [find  |-> IF event.janua_user_id = Null THEN "none" ELSE "id",
     key   |-> event.janua_user_id,
     steps |-> <<"update", "create">>,
     data  |-> [subscriptionTier |-> CheckoutTier(event.plan),
                subscriptionStartedAt |-> Now(clock),
                stripeCustomerId |-> IF event.customer # Null THEN event.customer
                                     ELSE user.stripeCustomerId],
     row   |-> [userId |-> uid, type |-> "subscription_created",
                amount |-> event.amount \div 100, status |-> "succeeded",
                stripeEventId |-> event.id],
     audit |-> 0]

handleJanuaSubscriptionCreated(payload, uid, user) ==
    [find  |-> "januaCustomerId",
     key   |-> payload.customer_id,
     steps |-> <<"update", "create">>,
     data  |-> [subscriptionTier |-> "pro",
                subscriptionStartedAt |-> Now(clock),
                billingProvider |-> payload.provider],
     row   |-> [userId |-> uid, type |-> "subscription_created",
                amount |-> 0, status |-> "succeeded",
                stripeEventId |-> payload.id],
     audit |-> 0]

handleJanuaSubscriptionUpdated(payload, uid, user) ==
    [find  |-> "januaCustomerId",
     key   |-> payload.customer_id,
     steps |-> <<"update">>,
     data  |-> [subscriptionTier |-> IF payload.status = "active" THEN "pro"
                                     ELSE "community"],
     row   |-> NoRow,
     audit |-> 0]

handleJanuaSubscriptionCancelled(payload, uid, user) ==
    [find  |-> "januaCustomerId",
     key   |-> payload.customer_id,
     steps |-> <<"update", "create">>,
     data  |-> [subscriptionTier |-> "community",
                subscriptionExpiresAt |-> Now(clock)],
     row   |-> [userId |-> uid, type |-> "subscription_cancelled",
                amount |-> 0, status |-> "succeeded",
                stripeEventId |-> payload.id],
     audit |-> 0]

handleJanuaSubscriptionPaused(payload, uid, user) ==
    [find  |-> "januaCustomerId",
     key   |-> payload.customer_id,
     steps |-> <<>>,
     data  |-> NoData,
     row   |-> NoRow,
     audit |-> 0]

handleJanuaSubscriptionResumed(payload, uid, user) ==
    [find  |-> "januaCustomerId",
     key   |-> payload.customer_id,
     steps |-> <<"update">>,
     data  |-> [subscriptionTier |-> "pro"],
     row   |-> NoRow,
     audit |-> 0]

handleJanuaPaymentSucceeded(payload, uid, user) ==
    [find  |-> "januaCustomerId",
     key   |-> payload.customer_id,
     steps |-> <<"create", "update">>,
     data  |-> [subscriptionTier |-> "pro"],
     row   |-> [userId |-> uid, type |-> "payment_succeeded",
                amount |-> payload.amount, status |-> "succeeded",
                stripeEventId |-> payload.id],
     audit |-> 0]

handleJanuaPaymentFailed(payload, uid, user) ==
    [find  |-> "januaCustomerId",
     key   |-> payload.customer_id,
     steps |-> <<"create">>,
     data  |-> NoData,
     row   |-> [userId |-> uid, type |-> "payment_failed",
                amount |-> payload.amount, status |-> "failed",
                stripeEventId |-> payload.id],
     audit |-> 0]

handleJanuaPaymentRefunded(payload, uid, user) ==
    [find  |-> "januaCustomerId",
     key   |-> payload.customer_id,
     steps |-> <<"create">>,
     data  |-> NoData,
     row   |-> [userId |-> uid, type |-> "refund_issued",
                amount |-> payload.amount, status |-> "succeeded",
                stripeEventId |-> payload.id],
     audit |-> 0]

----------------------------------------------------------------------------
(* Running one handler against the store *)

\* Where a storage call of the handler rejects (a write is refused or the
\* connection is lost): at its user.update, at its billingEvent.create, or nowhere.
FailPoints == {"none", "update", "create"}

HandlerPlan(h, ev, uid, user) ==
    CASE h = "handleSubscriptionCreated" -> handleSubscriptionCreated(ev, uid, user)
      [] h = "handleSubscriptionUpdated" -> handleSubscriptionUpdated(ev, uid, user)
      [] h = "handleSubscriptionCancelled" -> handleSubscriptionCancelled(ev, uid, user)
      [] h = "handlePaymentSucceeded" -> handlePaymentSucceeded(ev, uid, user)
      [] h = "handlePaymentFailed" -> handlePaymentFailed(ev, uid, user)
      [] h = "handleCheckoutCompleted" -> handleCheckoutCompleted(ev, uid, user)
      [] h = "handleJanuaSubscriptionCreated" -> handleJanuaSubscriptionCreated(ev, uid, user)
      [] h = "handleJanuaSubscriptionUpdated" -> handleJanuaSubscriptionUpdated(ev, uid, user)
      [] h = "handleJanuaSubscriptionCancelled" -> handleJanuaSubscriptionCancelled(ev, uid, user)
      [] h = "handleJanuaSubscriptionPaused" -> handleJanuaSubscriptionPaused(ev, uid, user)
      [] h = "handleJanuaSubscriptionResumed" -> handleJanuaSubscriptionResumed(ev, uid, user)
      [] h = "handleJanuaPaymentSucceeded" -> handleJanuaPaymentSucceeded(ev, uid, user)
      [] h = "handleJanuaPaymentFailed" -> handleJanuaPaymentFailed(ev, uid, user)
      [] h = "handleJanuaPaymentRefunded" -> handleJanuaPaymentRefunded(ev, uid, user)

\* The store and the handler's progress before its first storage call.
Started(us, lg) ==
    [users |-> us, ledger |-> lg, threw |-> FALSE, err |-> Null,
     lookups |-> 0, found |-> FALSE, userWrites |-> 0, rowWrites |-> 0, audits |-> 0]

\* A storage layer whose billingEvent.create replaces the ledger by the new row.
ExecStep_overwritesLedger(db, step, uid, plan, fp) ==
    IF db.threw THEN db
    ELSE IF step = "update" THEN
        IF fp = "update" THEN [db EXCEPT !.threw = TRUE, !.err = "Database error"]
        ELSE IF CustomerIdTaken(db.users, uid, plan.data)
        THEN [db EXCEPT !.threw = TRUE, !.err = "Unique constraint failed"]
        ELSE [db EXCEPT !.users[uid] = Merge(@, plan.data), !.userWrites = @ + 1]
    ELSE
        IF fp = "create" THEN [db EXCEPT !.threw = TRUE, !.err = "Database error"]
        ELSE [db EXCEPT !.ledger = <<plan.row>>, !.rowWrites = @ + 1]

\* One awaited storage call: it either takes effect or rejects (the handler
\* has no try/catch, so a rejection ends the handler with the earlier calls'
\* effects in place).
ExecStep(db, step, uid, plan, fp) ==
    IF db.threw THEN db
    ELSE IF step = "update" THEN
        IF fp = "update" THEN [db EXCEPT !.threw = TRUE, !.err = "Database error"]
        ELSE IF CustomerIdTaken(db.users, uid, plan.data)
        THEN [db EXCEPT !.threw = TRUE, !.err = "Unique constraint failed"]
        ELSE [db EXCEPT !.users[uid] = Merge(@, plan.data), !.userWrites = @ + 1]
    ELSE
        IF fp = "create" THEN [db EXCEPT !.threw = TRUE, !.err = "Database error"]
        ELSE IF EventIdTaken(db.ledger, plan.row)
        THEN [db EXCEPT !.threw = TRUE, !.err = "Unique constraint failed"]
        ELSE [db EXCEPT !.ledger = Append(@, plan.row), !.rowWrites = @ + 1]

RECURSIVE ExecSteps(_, _, _, _, _)
ExecSteps(db, steps, uid, plan, fp) ==
    IF steps = <<>> THEN db
    ELSE ExecSteps(ExecStep(db, Head(steps), uid, plan, fp), Tail(steps), uid, plan, fp)

\* The users a handler's lookup can resolve to; {Null} when there is none.
Targets(us, h, ev) ==
    LET p == HandlerPlan(h, ev, Null, NoUser)
        m == IF p.find = "none" THEN {} ELSE Matches(us, p.find, p.key)
    IN  IF m = {} THEN {Null} ELSE m

\* The storage calls that can reject in a run of h: the ones it makes.
CanFail(us, h, ev, uid) ==
    IF uid = Null THEN {"none"}
    ELSE LET p == HandlerPlan(h, ev, uid, us[uid])
         IN  {"none"} \cup {p.steps[i] : i \in 1..Len(p.steps)}

\* A handler that goes on to use the user it did not find.
RunHandler_noUserCheck(us, lg, h, ev, uid, fp) ==
    LET p0 == HandlerPlan(h, ev, Null, NoUser)
        s0 == Started(us, lg)
    IN  IF p0.find = "none" THEN s0
        ELSE IF uid = Null
        THEN [s0 EXCEPT !.lookups = 1, !.threw = TRUE, !.err = "TypeError"]
        ELSE LET p == HandlerPlan(h, ev, uid, us[uid])
                 s1 == ExecSteps([s0 EXCEPT !.lookups = 1, !.found = TRUE],
                                 p.steps, uid, p, fp)
             IN  IF s1.threw THEN s1 ELSE [s1 EXCEPT !.audits = p.audit]

\* Handler h on event ev when its lookup resolves to uid (Null: to nobody).
RunHandler(us, lg, h, ev, uid, fp) ==
    LET p0 == HandlerPlan(h, ev, Null, NoUser)
        s0 == Started(us, lg)
    IN  IF p0.find = "none" THEN s0
        ELSE IF uid = Null THEN [s0 EXCEPT !.lookups = 1]
        ELSE LET p == HandlerPlan(h, ev, uid, us[uid])
                 s1 == ExecSteps([s0 EXCEPT !.lookups = 1, !.found = TRUE],
                                 p.steps, uid, p, fp)
             IN  IF s1.threw THEN s1 ELSE [s1 EXCEPT !.audits = p.audit]

----------------------------------------------------------------------------
(* Webhook signatures *)

\* A hex HMAC-SHA256 digest: 64 characters determined by key and message.
HmacSha256Hex(key, msg) == [len |-> 64, mac |-> <<key, msg>>]

\* The secrets the providers sign with.
StripeSigningSecret == "whsec"
JanuaSigningSecret == "jwhsec"

\* An absent signature header (the Janua endpoint passes signature || '').
NoSignature == [len |-> 0, mac |-> <<>>]

SigKinds == {"good", "wrongkey", "tampered", "short", "missing"}

\* The signature header a sender of the given kind attaches to body.
SignatureOf(kind, secret, body) ==
    CASE kind = "good" -> HmacSha256Hex(secret, body)
      [] kind = "wrongkey" -> HmacSha256Hex("attacker", body)
      [] kind = "tampered" -> HmacSha256Hex(secret, [body EXCEPT !.id = "evt_0"])
      [] kind = "short" -> [len |-> 9, mac |-> <<"sig">>]
      [] kind = "missing" -> NoSignature

\* A construction that returns the event whatever the signature.
constructWebhookEvent_acceptsAll(payload, signature, secret) ==
    TRUE

\* StripeService.constructWebhookEvent: TRUE when stripe.webhooks.constructEvent
\* returns the event, FALSE when it throws.
constructWebhookEvent(payload, signature, secret) ==
    signature = HmacSha256Hex(secret, payload)

\* A comparison that only looks at the operands' lengths.
timingSafeEqual_lengthOnly(a, b) ==
    IF a.len # b.len THEN "throw" ELSE "true"

\* crypto.timingSafeEqual: "throw" (RangeError) on operands of different
\* byte length, otherwise whether they are equal.
timingSafeEqual(a, b) ==
    IF a.len # b.len THEN "throw"
    ELSE IF a.mac = b.mac THEN "true" ELSE "false"

\* JanuaBillingService.verifyWebhookSignature
verifyWebhookSignature(payload, signature) ==
    IF config.JANUA_WEBHOOK_SECRET = "" THEN "false"
    ELSE timingSafeEqual(signature, HmacSha256Hex(config.JANUA_WEBHOOK_SECRET, payload))

----------------------------------------------------------------------------
(* Requests the providers (or anybody else) can send *)

StripeEvent(id, type, customer, subscription, plan, ps, pe, amount, juid) ==
    [id |-> id, type |-> type, customer |-> customer, subscription |-> subscription,
     plan |-> plan, current_period_start |-> ps, current_period_end |-> pe,
     amount |-> amount, janua_user_id |-> juid]

\* Events for the mapped customer in their variety, one event of each kind
\* for a customer (or user id) nobody has.
StripeEvents ==
    {StripeEvent("evt_1", "customer.subscription.created", "cus_1", "sub_1", "essentials",
                 ps, 2, a, Null) : ps \in PeriodStarts, a \in Amounts}
    \cup
    {StripeEvent("evt_2", "customer.subscription.created", "cus_1", "sub_2", "pro",
                 1, 3, 500, Null)}
    \cup
    {StripeEvent("evt_1", "customer.subscription.updated", "cus_1", "sub_1", "pro",
                 1, pe, 500, Null) : pe \in PeriodEnds}
    \cup
    {StripeEvent("evt_1", "customer.subscription.deleted", "cus_1", "sub_2", "pro",
                 1, 2, 500, Null),
     StripeEvent("evt_2", "customer.subscription.deleted", "cus_1", "sub_1", "pro",
                 1, 2, 500, Null)}
    \cup
    {StripeEvent("evt_1", "invoice.payment_succeeded", "cus_1", "sub_1", "pro", 1, 2, 500, Null),
     StripeEvent("evt_2", "invoice.payment_failed", "cus_1", "sub_1", "pro", 1, 2, 500, Null)}
    \cup
    {StripeEvent("evt_1", "checkout.session.completed", Null, Null, pl, 0, 0, 500, "u1") :
        pl \in CheckoutPlans}
    \cup
    {StripeEvent("evt_2", "checkout.session.completed", "cus_2", Null, "essentials",
                 0, 0, 500, "u1")}
    \cup
    {StripeEvent("evt_1", t, "cus_x", "sub_1", "pro", 1, 2, 500, Null) :
        t \in {"customer.subscription.created", "customer.subscription.updated",
               "customer.subscription.deleted", "invoice.payment_succeeded",
               "invoice.payment_failed"}}
    \cup
    {StripeEvent("evt_1", "checkout.session.completed", Null, Null, "pro", 0, 0, 500, ju) :
        ju \in {"u_x", Null}}
    \cup
    {StripeEvent("evt_1", "customer.created", "cus_1", Null, Null, 0, 0, 0, Null)}

JanuaPayload(id, type, hasData, customer, plan, provider, status, amount) ==
    [id |-> id, type |-> type, hasData |-> hasData, customer_id |-> customer,
     plan_id |-> plan, provider |-> provider, status |-> status, amount |-> amount]

JanuaPayloads ==
    {JanuaPayload("evt_1", "subscription.created", TRUE, "jcus_1", "essentials", pr,
                  "active", 0) : pr \in JanuaProviders}
    \cup
    {JanuaPayload("evt_2", "subscription.created", TRUE, "jcus_1", "pro", "polar", "active", 0)}
    \cup
    {JanuaPayload("evt_1", "subscription.updated", TRUE, "jcus_1", "pro", "polar", st, 0) :
        st \in {"active", "past_due"}}
    \cup
    {JanuaPayload("evt_1", "subscription.cancelled", TRUE, "jcus_1", "pro", "polar",
                  "cancelled", 0)}
    \cup
    {JanuaPayload("evt_1", t, TRUE, "jcus_1", "pro", "polar", "active", 0) :
        t \in {"subscription.paused", "subscription.resumed"}}
    \cup
    {JanuaPayload("evt_1", "payment.succeeded", TRUE, "jcus_1", "pro", "polar", "active", 500),
     JanuaPayload("evt_2", "payment.failed", TRUE, "jcus_1", "pro", "polar", "active", 500),
     JanuaPayload("evt_2", "payment.refunded", TRUE, "jcus_1", "pro", "polar", "active", 500)}
    \cup
    {JanuaPayload("evt_1", t, TRUE, "jcus_x", "pro", "polar", "active", 500) :
        t \in {"subscription.created", "subscription.updated", "subscription.cancelled",
               "subscription.paused", "subscription.resumed", "payment.succeeded",
               "payment.failed", "payment.refunded"}}
    \cup
    {JanuaPayload("evt_1", "customer.created", TRUE, "jcus_1", Null, Null, Null, 0),
     JanuaPayload("evt_1", "subscription.created", FALSE, Null, Null, Null, Null, 0)}

----------------------------------------------------------------------------
(* BillingController *)

\* A switch without the case for checkout.session.completed.
StripeRoute_noCheckoutCase(type) ==
    CASE type = "customer.subscription.created" -> "handleSubscriptionCreated"
      [] type = "customer.subscription.updated" -> "handleSubscriptionUpdated"
      [] type = "customer.subscription.deleted" -> "handleSubscriptionCancelled"
      [] type = "invoice.payment_succeeded" -> "handlePaymentSucceeded"
      [] type = "invoice.payment_failed" -> "handlePaymentFailed"
      [] OTHER -> "none"

\* The switch of handleWebhook: the handler awaited for an event type.
StripeRoute(type) ==
    CASE type = "customer.subscription.created" -> "handleSubscriptionCreated"
      [] type = "customer.subscription.updated" -> "handleSubscriptionUpdated"
      [] type = "customer.subscription.deleted" -> "handleSubscriptionCancelled"
      [] type = "invoice.payment_succeeded" -> "handlePaymentSucceeded"
      [] type = "invoice.payment_failed" -> "handlePaymentFailed"
      [] type = "checkout.session.completed" -> "handleCheckoutCompleted"
      [] OTHER -> "none"

\* The switch of handleJanuaWebhook.
JanuaRoute(type) ==
    CASE type = "subscription.created" -> "handleJanuaSubscriptionCreated"
      [] type = "subscription.updated" -> "handleJanuaSubscriptionUpdated"
      [] type = "subscription.cancelled" -> "handleJanuaSubscriptionCancelled"
      [] type = "subscription.paused" -> "handleJanuaSubscriptionPaused"
      [] type = "subscription.resumed" -> "handleJanuaSubscriptionResumed"
      [] type = "payment.succeeded" -> "handleJanuaPaymentSucceeded"
      [] type = "payment.failed" -> "handleJanuaPaymentFailed"
      [] type = "payment.refunded" -> "handleJanuaPaymentRefunded"
      [] OTHER -> "none"

\* What is remembered of a request: which endpoint, the body and the kind of
\* signature it came with, whether the signature verified, which handler was
\* awaited, what it did, how the endpoint answered
\* ("ack" is {received: true}, "nack" is {received: false, error}, "throw" is
\* an exception leaving the controller method).
Answered(ep, body, sig, verified, h, r, resp, err) ==
    [ep |-> ep, body |-> body, sig |-> sig, verified |-> verified, handler |-> h,
     resp |-> resp, err |-> err, lookups |-> r.lookups, found |-> r.found,
     userWrites |-> r.userWrites, rowWrites |-> r.rowWrites, audits |-> r.audits]

\* The try/catch around the switch: a handler's rejection becomes
\* {received: false, error: error.message}.
AfterHandler(ep, body, sig, h, r) ==
    /\ users' = r.users
    /\ ledger' = r.ledger
    /\ last' = Answered(ep, body, sig, TRUE, h, r,
                        IF r.threw THEN "nack" ELSE "ack", r.err)

Rejected(ep, body, sig, verified, resp, err) ==
    /\ UNCHANGED <<users, ledger>>
    /\ last' = Answered(ep, body, sig, verified, "none", Started(users, ledger), resp, err)

\* BillingController.handleWebhook
handleWebhook(event, sigKind, fp) ==
    LET webhookSecret == config.STRIPE_WEBHOOK_SECRET
        signature == SignatureOf(sigKind, StripeSigningSecret, event)
        h == StripeRoute(event.type)
    IN  /\ nreq < MaxRequests
        /\ nreq' = nreq + 1
        /\ UNCHANGED <<config, clock>>
        /\ UNCHANGED apiVars
        /\ IF webhookSecret = ""
           THEN fp = "none" /\ Rejected("stripe", event, sigKind, FALSE, "nack",
                                       "Webhook secret not configured")
           ELSE IF ~constructWebhookEvent(event, signature, webhookSecret)
           THEN fp = "none" /\ Rejected("stripe", event, sigKind, FALSE, "nack",
                                       "Invalid signature")
           ELSE IF h = "none"
           THEN fp = "none" /\ Rejected("stripe", event, sigKind, TRUE, "ack", Null)
           ELSE \E uid \in Targets(users, h, event) :
                    /\ fp \in CanFail(users, h, event, uid)
                    /\ AfterHandler("stripe", event, sigKind, h,
                                    RunHandler(users, ledger, h, event, uid, fp))

\* BillingController.handleJanuaWebhook
handleJanuaWebhook(payload, sigKind, fp) ==
    LET signature == SignatureOf(sigKind, JanuaSigningSecret, payload)
        ok == verifyWebhookSignature(payload, signature)
        h == JanuaRoute(payload.type)
    IN  /\ nreq < MaxRequests
        /\ nreq' = nreq + 1
        /\ UNCHANGED <<config, clock>>
        /\ UNCHANGED apiVars
        /\ IF ok = "throw"
           THEN fp = "none" /\ Rejected("janua", payload, sigKind, FALSE, "throw", "RangeError")
           ELSE IF ok = "false"
           THEN fp = "none" /\ Rejected("janua", payload, sigKind, FALSE, "nack",
                                       "Invalid signature")
           ELSE IF ~payload.hasData
           THEN fp = "none" /\ Rejected("janua", payload, sigKind, TRUE, "throw", "TypeError")
           ELSE IF h = "none"
           THEN fp = "none" /\ Rejected("janua", payload, sigKind, TRUE, "ack", Null)
           ELSE \E uid \in Targets(users, h, payload) :
                    /\ fp \in CanFail(users, h, payload, uid)
                    /\ AfterHandler("janua", payload, sigKind, h,
                                    RunHandler(users, ledger, h, payload, uid, fp))

\* Time passes between requests (after the last request nothing reads the clock).
Tick ==
    /\ clock < MaxClock
    /\ nreq < MaxRequests
    /\ clock' = clock + 1
    /\ UNCHANGED <<users, ledger, config, nreq, last>>
    /\ UNCHANGED apiVars

----------------------------------------------------------------------------
(* Checkout orchestration and read paths *)

\* Who calls the API: a subscriber, and an id no user row has.
Callers == {"u1", "u_x"}

\* Plan slugs a caller can ask for (Null: none given).
UpgradePlans == {Null, "essentials", "essentials_yearly", "dhanam_pro"}
ExternalPlans == {"pro_yearly"}

\* Country codes given to the provider router.
CountryCodes == {"MX", "US", "DE", "mx", "MEX", ""}

\* User.countryCode of a caller (no row in the model's users carries one).
CountryOf(uid) == Null

\* A return_url as new URL() sees it: whether it parses, and the labels of
\* its hostname.
Url(valid, host) == [valid |-> valid, host |-> host]

ReturnUrls ==
    {Url(TRUE, <<"app", "dhan", "am">>), Url(TRUE, <<"evil", "example">>),
     Url(TRUE, <<"dhan", "am">>), Url(TRUE, <<"localhost">>), Url(FALSE, <<>>)}

NoUrl == Url(FALSE, <<>>)

\* /\.madfam\.io$/, /\.dhan\.am$/, /\.enclii\.com$/
TrustedDomains == {<<"madfam", "io">>, <<"dhan", "am">>, <<"enclii", "com">>}

\* The regular expression /\.<domain>$/ tested on a hostname.
EndsWithDomain(host, d) ==
    /\ Len(host) > Len(d)
    /\ SubSeq(host, Len(host) - Len(d) + 1, Len(host)) = d

\* An allow-list whose patterns lack the leading dot, so that the bare
\* domain and any host ending in its labels pass.
allowedHosts_noLeadingDot(host) ==
    \/ \E d \in TrustedDomains :
          Len(host) >= Len(d) /\ SubSeq(host, Len(host) - Len(d) + 1, Len(host)) = d
    \/ config.NODE_ENV # "production" /\ host = <<"localhost">>

\* allowedHosts.some((re) => re.test(returnHost))
allowedHosts(host) ==
    \/ \E d \in TrustedDomains : EndsWithDomain(host, d)
    \/ config.NODE_ENV # "production" /\ host = <<"localhost">>

\* An isEnabled that looks at the API key only.
isEnabled_keyOnly == config.JANUA_API_KEY # ""

\* JanuaBillingService.isEnabled: this.enabled && !!this.januaApiKey
isEnabled == config.JANUA_BILLING_ENABLED /\ config.JANUA_API_KEY # ""

\* A router that compares the country code without regard to case.
getProviderForCountry_anyCase(countryCode) ==
    IF countryCode \in {"MX", "mx"} THEN "conekta" ELSE "polar"

\* JanuaBillingService.getProviderForCountry
getProviderForCountry(countryCode) ==
    IF countryCode = "MX" THEN "conekta" ELSE "polar"

\* tierRank[x]; Undefined when x is not a key of the table.
Undefined == -1

tierRank(x) ==
    CASE x = "community" -> 0
      [] x = "essentials" -> 1
      [] x = "pro" -> 2
      [] OTHER -> Undefined

\* tierRank[currentUser?.subscriptionTier] ?? 0
currentRank(tier) ==
    IF tierRank(tier) = Undefined THEN 0 ELSE tierRank(tier)

\* tierRank[options.plan || 'pro'] ?? 2
requestedRank(plan) ==
    LET requestedPlan == IF plan = Null THEN "pro" ELSE plan
    IN  IF tierRank(requestedPlan) = Undefined THEN 2 ELSE tierRank(requestedPlan)

\* Customer ids the providers hand out, in the order of their creation.
NewCustomerIds == <<"cus_new1", "cus_new2", "cus_new3", "cus_new4">>

\* A checkout call between two awaits: the operation and its arguments, the
\* billing path (via), the await it is about to make (pc) and its local
\* variables customerId and provider.
Call(op, uid, plan, countryCode, return_url, via, customerId) ==
    [op |-> op, uid |-> uid, plan |-> plan, countryCode |-> countryCode,
     return_url |-> return_url, via |-> via,
     pc |-> IF customerId = Null THEN "createCustomer" ELSE "createCheckoutSession",
     customerId |-> customerId,
     provider |-> IF via = "janua" THEN getProviderForCountry(countryCode) ELSE "stripe"]

\* A Janua path that never looks at the stored customer id.
upgradeToPremiumViaJanua_alwaysCreates(op, uid, countryCode, plan, return_url) ==
    Call(op, uid, plan, countryCode, return_url, "janua", Null)

\* upgradeToPremiumViaJanua up to its first await: customerId is read from
\* the user row the caller fetched.
upgradeToPremiumViaJanua(op, uid, countryCode, plan, return_url) ==
    Call(op, uid, plan, countryCode, return_url, "janua", users[uid].januaCustomerId)

\* upgradeToPremiumViaStripe (and the direct Stripe path of
\* createExternalCheckout) up to the first await.
upgradeToPremiumViaStripe(op, uid, countryCode, plan, return_url) ==
    Call(op, uid, plan, countryCode, return_url, "stripe", users[uid].stripeCustomerId)

\* The arguments of an API call, as far as it has any.
Args(plan, countryCode, return_url) ==
    [plan |-> plan, countryCode |-> countryCode, return_url |-> return_url]

NoArgs == Args(Null, Null, NoUrl)

\* How an API call ended: returned (status "ok", value) or threw (error).
Outcome(op, uid, arg, status, error, value) ==
    [op |-> op, uid |-> uid, arg |-> arg, status |-> status, error |-> error,
     value |-> value]

NoOutcome == Outcome("none", Null, NoArgs, "none", Null, Null)

\* The call throws before anything is created or written.
Throws(op, uid, arg, error) ==
    /\ done' = Outcome(op, uid, arg, "error", error, Null)
    /\ UNCHANGED <<users, calls, created, sessions, auditLog>>

\* The call reaches its first await.
Enter(c) ==
    /\ calls' = calls (+) SetToBag({c})
    /\ UNCHANGED <<users, created, sessions, auditLog, done>>

\* A started call counts against MaxCalls; the webhook side stands still.
Started1 ==
    /\ ncalls < MaxCalls
    /\ ncalls' = ncalls + 1
    /\ UNCHANGED <<ledger, config, clock, nreq, last, usage, invs, ninv, hooks, notes>>

\* BillingService.upgradeToPremium up to the routing decision.
upgradeToPremium(uid, plan, countryCode) ==
    LET cc == IF countryCode = Null THEN "US" ELSE countryCode
        arg == Args(plan, countryCode, NoUrl)
    IN  /\ Started1
        /\ IF uid \notin Users
           THEN Throws("upgradeToPremium", uid, arg, "User not found")
           ELSE IF currentRank(users[uid].subscriptionTier) >= requestedRank(plan)
           THEN Throws("upgradeToPremium", uid, arg, "User is already on tier")
           ELSE IF isEnabled
           THEN Enter(upgradeToPremiumViaJanua("upgradeToPremium", uid, cc, plan, NoUrl))
           ELSE Enter(upgradeToPremiumViaStripe("upgradeToPremium", uid, cc, plan, NoUrl))

\* BillingService.createExternalCheckout up to the first await after the lookup.
createExternalCheckout(uid, plan, returnUrl) ==
    LET cc == IF CountryOf(uid) = Null THEN "US" ELSE CountryOf(uid)
    IN  IF uid \notin Users
        THEN Throws("publicCheckout", uid, Args(plan, Null, returnUrl), "User not found")
        ELSE IF isEnabled
        THEN Enter(upgradeToPremiumViaJanua("publicCheckout", uid, cc, plan, returnUrl))
        ELSE Enter(upgradeToPremiumViaStripe("publicCheckout", uid, cc, plan, returnUrl))

\* BillingController.publicCheckout: the return_url checks, then the service.
publicCheckout(uid, plan, return_url) ==
    /\ Started1
    /\ IF ~return_url.valid
       THEN Throws("publicCheckout", uid, Args(plan, Null, return_url),
                   "return_url is not a valid URL")
       ELSE IF ~allowedHosts(return_url.host)
       THEN Throws("publicCheckout", uid, Args(plan, Null, return_url),
                   "return_url host is not allowed")
       ELSE createExternalCheckout(uid, plan, return_url)

\* The call c of the bag moves on as c2.
Resume(c, c2) == calls' = (calls (-) SetToBag({c})) (+) SetToBag({c2})

\* The call c of the bag ends.
Leave(c) == calls' = calls (-) SetToBag({c})

ApiFrame ==
    UNCHANGED <<ledger, config, clock, nreq, last, usage, ncalls, invs, ninv, hooks, notes>>

\* A customer creation whose failure is swallowed: the call goes on to the
\* checkout session without a customer id.
createCustomer_swallowsFailure(c, ok) ==
    /\ c.pc = "createCustomer"
    /\ ApiFrame
    /\ UNCHANGED <<users, sessions, auditLog, done>>
    /\ IF ok
       THEN LET id == NewCustomerIds[Len(created) + 1]
            IN  /\ created' = Append(created, [api |-> c.via, userId |-> c.uid, id |-> id,
                                             provider |-> c.provider])
                /\ Resume(c, [c EXCEPT !.pc = "update", !.customerId = id])
       ELSE /\ created' = created
            /\ Resume(c, [c EXCEPT !.pc = "createCheckoutSession"])

\* await createCustomer(...) of the provider in use: the provider creates a
\* customer and returns its id, or the request fails and the error propagates.
createCustomer(c, ok) ==
    /\ c.pc = "createCustomer"
    /\ ApiFrame
    /\ UNCHANGED <<users, sessions, auditLog>>
    /\ IF ok
       THEN LET id == NewCustomerIds[Len(created) + 1]
            IN  /\ created' = Append(created, [api |-> c.via, userId |-> c.uid, id |-> id,
                                             provider |-> c.provider])
                /\ Resume(c, [c EXCEPT !.pc = "update", !.customerId = id])
                /\ done' = done
       ELSE /\ created' = created
            /\ Leave(c)
            /\ done' = Outcome(c.op, c.uid, Args(c.plan, c.countryCode, c.return_url),
                               "error", "Failed to create customer", Null)

\* A store of the customer id that also grants the paid tier.
storeCustomerId_grantsTier(c) ==
    /\ c.pc = "update"
    /\ ApiFrame
    /\ UNCHANGED <<created, sessions, auditLog, done>>
    /\ users' = [users EXCEPT ![c.uid] =
                    Merge(@, [stripeCustomerId |-> c.customerId,
                              subscriptionTier |-> "pro"])]
    /\ Resume(c, [c EXCEPT !.pc = "createCheckoutSession"])

\* await prisma.user.update(...) that stores the new customer id.
storeCustomerId(c) ==
    /\ c.pc = "update"
    /\ ApiFrame
    /\ UNCHANGED <<created, sessions, auditLog, done>>
    /\ users' = [users EXCEPT ![c.uid] =
                    Merge(@, IF c.via = "janua"
                             THEN [januaCustomerId |-> c.customerId,
                                   billingProvider |-> c.provider]
                             ELSE [stripeCustomerId |-> c.customerId])]
    /\ Resume(c, [c EXCEPT !.pc = "createCheckoutSession"])

\* The price or plan a checkout session is requested for.
priceId(c) ==
    IF c.via = "janua" THEN (IF c.plan = Null THEN "pro" ELSE c.plan)
    ELSE IF c.plan = "essentials" THEN "STRIPE_ESSENTIALS_PRICE_ID"
    ELSE "STRIPE_PREMIUM_PRICE_ID"

\* await createCheckoutSession(...), then audit.log and the return of the
\* checkout URL; or the provider's request fails and the error propagates.
createCheckoutSession(c, ok) ==
    /\ c.pc = "createCheckoutSession"
    /\ ApiFrame
    /\ UNCHANGED <<users, created>>
    /\ Leave(c)
    /\ IF ok
       THEN /\ sessions' = Append(sessions, [api |-> c.via, customerId |-> c.customerId,
                                             priceId |-> priceId(c), userId |-> c.uid,
                                             successUrl |-> c.return_url,
                                             provider |-> c.provider])
            /\ auditLog' = Append(auditLog, [userId |-> c.uid,
                                             action |-> "BILLING_UPGRADE_INITIATED"])
            /\ done' = Outcome(c.op, c.uid, Args(c.plan, c.countryCode, c.return_url),
                               "ok", Null,
                               [customerId |-> c.customerId, provider |-> c.provider,
                                checkoutUrl |-> Len(sessions) + 1,
                                code |-> IF c.op = "publicCheckout" THEN 302 ELSE 201])
       ELSE /\ UNCHANGED <<sessions, auditLog>>
            /\ done' = Outcome(c.op, c.uid, Args(c.plan, c.countryCode, c.return_url),
                               "error", "Failed to create checkout session", Null)

\* BillingService.createPortalSession
createPortalSession(uid, ok) ==
    /\ Started1
    /\ UNCHANGED <<users, calls, created, sessions, auditLog>>
    /\ done' = IF uid \notin Users \/ users[uid].stripeCustomerId = Null
               THEN Outcome("createPortalSession", uid, NoArgs, "error",
                            "No Stripe customer found for this user", Null)
               ELSE IF ~ok
               THEN Outcome("createPortalSession", uid, NoArgs, "error",
                            "Failed to create portal session", Null)
               ELSE Outcome("createPortalSession", uid, NoArgs, "ok", Null,
                            users[uid].stripeCustomerId)

\* Infinity in the usage-limit table.
Infinity == -1

\* The metric types of the usage-limit table that the model exercises.
MetricTypes == {"esg_calculation", "monte_carlo_simulation", "goal_probability"}

\* usageLimits[tier][metricType]
usageLimits(tier, metricType) ==
    CASE tier = "community" ->
           ( CASE metricType = "esg_calculation" -> 5
               [] metricType = "monte_carlo_simulation" -> 2
               [] metricType = "goal_probability" -> 0 )
      [] tier = "essentials" ->
           ( CASE metricType = "esg_calculation" -> 20
               [] metricType = "monte_carlo_simulation" -> 10
               [] metricType = "goal_probability" -> 5 )
      [] tier = "pro" -> Infinity

SecondsPerDay == 86400

\* const today = new Date(); today.setHours(0, 0, 0, 0): the instant (seconds
\* since the epoch) of the most recent midnight on the server's local clock,
\* which runs tz hours ahead of UTC.
today(c, tz) ==
    ((c + tz * 3600) \div SecondsPerDay) * SecondsPerDay - tz * 3600

\* date DateTime @db.Date: the column keeps the UTC calendar day of the
\* instant it is given (the day number since the epoch).
DateOf(instant) == instant \div SecondsPerDay

\* where: { userId_metricType_date: { userId, metricType, date } }
UsageKey(uid, metricType, date) ==
    [userId |-> uid, metricType |-> metricType, date |-> date]

\* No UsageMetric row.
NoRows == [k \in {} |-> 0]

\* usage?.count || 0
CountOf(rows, key) == IF key \in DOMAIN rows THEN rows[key] ELSE 0

\* An upsert that always takes its create branch.
upsert_createOnly(rows, key) == (key :> 1) @@ rows

\* An upsert that leaves only the row it wrote.
upsert_replacesTable(rows, key) == key :> (CountOf(rows, key) + 1)

\* prisma.usageMetric.upsert({ where, create: { count: 1 },
\* update: { count: { increment: 1 } } }), one statement at the storage layer.
upsert(rows, key) ==
    IF key \in DOMAIN rows THEN [rows EXCEPT ![key] = @ + 1]
    ELSE (key :> 1) @@ rows

\* The key the usage operations address at the current instant.
TodayKey(uid, metricType) ==
    UsageKey(uid, metricType, DateOf(today(clock, config.TZ)))

\* BillingService.recordUsage
recordUsage(uid, metricType) ==
    usage' = upsert(usage, TodayKey(uid, metricType))

\* A limit check that lets the count reach the cap plus one.
checkUsageLimit_atMost(uid, metricType) ==
    IF uid \notin Users THEN FALSE
    ELSE IF users[uid].subscriptionTier = "pro" THEN TRUE
    ELSE LET limit == usageLimits(users[uid].subscriptionTier, metricType)
         IN  IF limit = Infinity THEN TRUE
             ELSE IF limit = 0 THEN FALSE
             ELSE CountOf(usage, TodayKey(uid, metricType)) <= limit

\* A limit check that never looks at the count of an entitled feature.
checkUsageLimit_noCount(uid, metricType) ==
    IF uid \notin Users THEN FALSE
    ELSE IF users[uid].subscriptionTier = "pro" THEN TRUE
    ELSE LET limit == usageLimits(users[uid].subscriptionTier, metricType)
         IN  IF limit = Infinity THEN TRUE
             ELSE IF limit = 0 THEN FALSE
             ELSE TRUE

\* A limit check that takes a missing counter row for an exhausted one.
checkUsageLimit_noRowDenied(uid, metricType) ==
    IF uid \notin Users THEN FALSE
    ELSE IF users[uid].subscriptionTier = "pro" THEN TRUE
    ELSE LET limit == usageLimits(users[uid].subscriptionTier, metricType)
             key == TodayKey(uid, metricType)
         IN  IF limit = Infinity THEN TRUE
             ELSE IF limit = 0 THEN FALSE
             ELSE key \in DOMAIN usage /\ usage[key] < limit

\* BillingService.checkUsageLimit: the value it resolves to.
checkUsageLimit(uid, metricType) ==
    IF uid \notin Users THEN FALSE
    ELSE IF users[uid].subscriptionTier = "pro" THEN TRUE
    ELSE LET limit == usageLimits(users[uid].subscriptionTier, metricType)
         IN  IF limit = Infinity THEN TRUE
             ELSE IF limit = 0 THEN FALSE
             ELSE CountOf(usage, TodayKey(uid, metricType)) < limit

\* BillingService.getUserUsage: the value it resolves to.
getUserUsage(uid) ==
    LET tier == IF uid \in Users THEN users[uid].subscriptionTier ELSE "community"
    IN  [date |-> today(clock, config.TZ),
         tier |-> tier,
         usage |-> [m \in MetricTypes |->
                      [used |-> CountOf(usage, TodayKey(uid, m)),
                       limit |-> IF usageLimits(tier, m) = Infinity THEN -1
                                 ELSE usageLimits(tier, m)]]]

\* The rows of a user, newest first.
RECURSIVE RowsOf(_, _)
RowsOf(lg, uid) ==
    IF lg = <<>> THEN <<>>
    ELSE IF lg[Len(lg)].userId = uid
    THEN <<lg[Len(lg)]>> \o RowsOf(SubSeq(lg, 1, Len(lg) - 1), uid)
    ELSE RowsOf(SubSeq(lg, 1, Len(lg) - 1), uid)

\* BillingService.getBillingHistory (the default limit of 20 rows exceeds
\* every ledger of the model)
getBillingHistory(uid) ==
    /\ Started1
    /\ UNCHANGED <<users, calls, created, sessions, auditLog>>
    /\ done' = Outcome("getBillingHistory", uid, NoArgs, "ok", Null, RowsOf(ledger, uid))

\* BillingController.getSubscriptionStatus (req.user is the authenticated user)
getSubscriptionStatus(uid) ==
    LET user == users[uid]
    IN  /\ Started1
        /\ UNCHANGED <<users, calls, created, sessions, auditLog>>
        /\ done' = Outcome("getSubscriptionStatus", uid, NoArgs, "ok", Null,
                     [tier |-> user.subscriptionTier,
                      startedAt |-> user.subscriptionStartedAt,
                      expiresAt |-> user.subscriptionExpiresAt,
                      isActive |->
                          /\ user.subscriptionTier # "community"
                          /\ \/ user.subscriptionExpiresAt = NullDate
                             \/ user.subscriptionExpiresAt[1] > Now(clock)[1]])

\* A caller asks the router for the provider of a country.
routeCountry(countryCode) ==
    /\ Started1
    /\ UNCHANGED <<users, calls, created, sessions, auditLog>>
    /\ done' = Outcome("getProviderForCountry", Null, Args(Null, countryCode, NoUrl), "ok", Null,
                       getProviderForCountry(countryCode))

----------------------------------------------------------------------------
(* Specification *)

NewUser ==
    [subscriptionTier |-> "community", subscriptionStartedAt |-> NullDate,
     subscriptionExpiresAt |-> NullDate, stripeSubscriptionId |-> Null,
     stripeCustomerId |-> Null, januaCustomerId |-> Null, billingProvider |-> Null]

\* u1 has been through a checkout with both providers, u2 with Stripe only.
Init ==
    /\ users = [u \in Users |->
                  IF u = "u1"
                  THEN [NewUser EXCEPT !.stripeCustomerId = "cus_1",
                                       !.januaCustomerId = "jcus_1"]
                  ELSE [NewUser EXCEPT !.stripeCustomerId = "cus_2"]]
    /\ ledger = <<>>
    /\ config \in [STRIPE_WEBHOOK_SECRET : {"", StripeSigningSecret},
                   JANUA_WEBHOOK_SECRET : {"", JanuaSigningSecret},
                   JANUA_API_KEY : {"jk"}, JANUA_BILLING_ENABLED : {TRUE}, NODE_ENV : {"production"}, TZ : {0}]
    /\ clock = 0
    /\ nreq = 0
    /\ last = Answered("none", NoData, "missing", FALSE, "none", Started(users, ledger), Null, Null)
    /\ calls = EmptyBag
    /\ ncalls = 0
    /\ created = <<>>
    /\ sessions = <<>>
    /\ auditLog = <<>>
    /\ usage = NoRows
    /\ done = NoOutcome
    /\ invs = EmptyBag
    /\ ninv = 0
    /\ hooks = {}
    /\ notes = <<>>

\* Requests with a good signature carry any event; the others one event.
StripeRequests ==
    [event : StripeEvents, sig : {"good"}, fp : FailPoints]
    \cup [event : {StripeEvent("evt_1", "customer.subscription.created", "cus_1",
                               "sub_1", "pro", 1, 2, 500, Null)},
          sig : SigKinds \ {"good"}, fp : {"none"}]

JanuaRequests ==
    [payload : JanuaPayloads, sig : {"good"}, fp : FailPoints]
    \cup [payload : {JanuaPayload("evt_1", "subscription.created", TRUE, "jcus_1",
                                  "pro", "conekta", "active", 0)},
          sig : SigKinds \ {"good"}, fp : {"none"}]

StripeWebhook ==
    \E req \in StripeRequests : handleWebhook(req.event, req.sig, req.fp)

JanuaWebhook ==
    \E req \in JanuaRequests : handleJanuaWebhook(req.payload, req.sig, req.fp)

Next == StripeWebhook \/ JanuaWebhook \/ Tick

Spec == Init /\ [][Next]_vars

\* The subscriber u1 before the API is called: new, on essentials after a
\* checkout, or on pro with a subscription; the latter two hold a customer
\* id of both billing paths.
Profiles == {"new", "essentials", "pro"}

ProfileUser(p) ==
    CASE p = "new" -> NewUser
      [] p = "essentials" ->
            [NewUser EXCEPT !.subscriptionTier = "essentials",
                            !.subscriptionStartedAt = Now(0),
                            !.stripeCustomerId = "cus_1", !.januaCustomerId = "jcus_1",
                            !.billingProvider = "conekta"]
      [] p = "pro" ->
            [NewUser EXCEPT !.subscriptionTier = "pro",
                            !.subscriptionStartedAt = FromUnix(1),
                            !.subscriptionExpiresAt = FromUnix(2),
                            !.stripeSubscriptionId = "sub_1",
                            !.stripeCustomerId = "cus_1", !.januaCustomerId = "jcus_1",
                            !.billingProvider = "conekta"]

ProfileLedger(p) ==
    IF p = "new" THEN <<>>
    ELSE <<[userId |-> "u1", type |-> "subscription_created", amount |-> 5,
            status |-> "succeeded", stripeEventId |-> "evt_1"]>>

ApiInit ==
    /\ \E p \in Profiles :
          /\ users = [u \in Users |->
                        IF u = "u1" THEN ProfileUser(p)
                        ELSE [NewUser EXCEPT !.stripeCustomerId = "cus_2"]]
          /\ ledger = ProfileLedger(p)
    /\ config \in [STRIPE_WEBHOOK_SECRET : {StripeSigningSecret},
                   JANUA_WEBHOOK_SECRET : {JanuaSigningSecret},
                   JANUA_API_KEY : {"", "jk"}, JANUA_BILLING_ENABLED : {TRUE}, NODE_ENV : {"production", "development"},
                   TZ : {0}]
    /\ clock = 0
    /\ nreq = 0
    /\ last = Answered("none", NoData, "missing", FALSE, "none", Started(users, ledger), Null, Null)
    /\ calls = EmptyBag
    /\ ncalls = 0
    /\ created = <<>>
    /\ sessions = <<>>
    /\ auditLog = <<>>
    /\ usage = UsageKey("u1", "esg_calculation", DateOf(today(0, 0))) :> 4
    /\ done = NoOutcome
    /\ invs = EmptyBag
    /\ ninv = 0
    /\ hooks = {}
    /\ notes = <<>>

UpgradeToPremium ==
    \E uid \in Callers, plan \in UpgradePlans, countryCode \in {"MX", Null} :
        upgradeToPremium(uid, plan, countryCode)

PublicCheckout ==
    \E uid \in Callers, plan \in ExternalPlans, return_url \in ReturnUrls :
        publicCheckout(uid, plan, return_url)

CreateCustomer ==
    \E c \in BagToSet(calls), ok \in BOOLEAN : createCustomer(c, ok)

StoreCustomerId ==
    \E c \in BagToSet(calls) : storeCustomerId(c)

CreateCheckoutSession ==
    \E c \in BagToSet(calls), ok \in BOOLEAN : createCheckoutSession(c, ok)

CreatePortalSession ==
    \E uid \in Callers, ok \in BOOLEAN : createPortalSession(uid, ok)

CheckUsageLimit ==
    \E uid \in Callers :
        /\ Started1
        /\ UNCHANGED <<users, calls, created, sessions, auditLog>>
        /\ done' = Outcome("checkUsageLimit", uid, NoArgs, "ok", Null,
                           checkUsageLimit(uid, "esg_calculation"))

GetUserUsage ==
    \E uid \in Callers :
        /\ Started1
        /\ UNCHANGED <<users, calls, created, sessions, auditLog>>
        /\ done' = Outcome("getUserUsage", uid, NoArgs, "ok", Null, getUserUsage(uid))

GetBillingHistory == \E uid \in Callers : getBillingHistory(uid)

GetSubscriptionStatus == \E uid \in Callers \cap Users : getSubscriptionStatus(uid)

RouteCountry == \E countryCode \in CountryCodes : routeCountry(countryCode)

RecordUsage ==
    \E uid \in Callers \cap Users :
        /\ ncalls < MaxCalls
        /\ ncalls' = ncalls + 1
        /\ UNCHANGED <<ledger, config, clock, nreq, last, invs, ninv, hooks, notes>>
        /\ UNCHANGED <<users, calls, created, sessions, auditLog>>
        /\ recordUsage(uid, "esg_calculation")
        /\ done' = Outcome("recordUsage", uid, NoArgs, "ok", Null, Null)

ApiNext ==
    \/ UpgradeToPremium \/ PublicCheckout
    \/ CreateCustomer \/ StoreCustomerId \/ CreateCheckoutSession
    \/ CreatePortalSession
    \/ CheckUsageLimit \/ GetUserUsage \/ GetBillingHistory \/ GetSubscriptionStatus
    \/ RouteCountry
    \/ RecordUsage

ApiSpec == ApiInit /\ [][ApiNext]_vars


----------------------------------------------------------------------------
(* Usage metering: feature invocations that check the limit, run, and      *)
(* record their use; and the three usage operations called on their own.   *)

\* Who uses a metered feature: a subscriber, and an id no user row has.
UsageCallers == {"u1", "u_x"}

\* The metered features the usage specifications exercise.
UsageMetrics == {"monte_carlo_simulation", "goal_probability"}

\* Offsets of the server's local clock from UTC, in hours.
TimeZones == {-6, 0, 2}

\* Instants at which calls are made: 01:00 and 23:00 UTC of the day after
\* the epoch, and 01:00 UTC of the day after that.
UsageInstants == {SecondsPerDay + 3600, SecondsPerDay + 23 * 3600, 2 * SecondsPerDay + 3600}

\* Arguments of a usage call.
UsageArgs(metricType) == [metricType |-> metricType]

\* What the usage operations leave alone.
UsageFrame ==
    UNCHANGED <<users, ledger, config, nreq, last, calls, ncalls, created, sessions, auditLog,
                hooks, notes>>

\* A feature invocation up to its limit check: if (!await checkUsageLimit(...))
\* throw; at most k invocations are between their check and their record.
Invoke(uid, metricType, k) ==
    /\ ninv < MaxInvocations
    /\ BagCardinality(invs) < k
    /\ ninv' = ninv + 1
    /\ LET allowed == checkUsageLimit(uid, metricType)
       IN  /\ done' = Outcome("invoke", uid, UsageArgs(metricType), "ok", Null, allowed)
           /\ invs' = IF allowed
                      THEN invs (+) SetToBag({[uid |-> uid, metricType |-> metricType]})
                      ELSE invs
    /\ UNCHANGED <<usage, clock>>
    /\ UsageFrame

\* The end of an allowed invocation: await recordUsage(...).
Finish(inv) ==
    /\ invs' = invs (-) SetToBag({inv})
    /\ recordUsage(inv.uid, inv.metricType)
    /\ done' = Outcome("recordUsage", inv.uid, UsageArgs(inv.metricType), "ok", Null, Null)
    /\ UNCHANGED <<ninv, clock>>
    /\ UsageFrame

\* recordUsage called on its own.
RecordOnly(uid, metricType) ==
    /\ ninv < MaxInvocations
    /\ ninv' = ninv + 1
    /\ recordUsage(uid, metricType)
    /\ done' = Outcome("recordUsage", uid, UsageArgs(metricType), "ok", Null, Null)
    /\ UNCHANGED <<invs, clock>>
    /\ UsageFrame

\* checkUsageLimit called on its own.
CheckOnly(uid, metricType) ==
    /\ ninv < MaxInvocations
    /\ ninv' = ninv + 1
    /\ done' = Outcome("checkUsageLimit", uid, UsageArgs(metricType), "ok", Null,
                       checkUsageLimit(uid, metricType))
    /\ UNCHANGED <<usage, invs, clock>>
    /\ UsageFrame

\* getUserUsage called on its own.
UsageReport(uid) ==
    /\ ninv < MaxInvocations
    /\ ninv' = ninv + 1
    /\ done' = Outcome("getUserUsage", uid, NoArgs, "ok", Null, getUserUsage(uid))
    /\ UNCHANGED <<usage, invs, clock>>
    /\ UsageFrame

\* Time passes.
AdvanceClock ==
    /\ \E t \in UsageInstants : t > clock /\ clock' = t
    /\ UNCHANGED <<usage, invs, ninv, done>>
    /\ UsageFrame

UsageInit ==
    /\ \E p \in Profiles :
          /\ users = [u \in Users |-> IF u = "u1" THEN ProfileUser(p) ELSE NewUser]
          /\ ledger = ProfileLedger(p)
    /\ config \in [STRIPE_WEBHOOK_SECRET : {StripeSigningSecret},
                   JANUA_WEBHOOK_SECRET : {JanuaSigningSecret},
                   JANUA_API_KEY : {"jk"}, JANUA_BILLING_ENABLED : {TRUE}, NODE_ENV : {"production"},
                   TZ : TimeZones]
    /\ clock = SecondsPerDay + 3600
    /\ nreq = 0
    /\ last = Answered("none", NoData, "missing", FALSE, "none", Started(users, ledger), Null, Null)
    /\ calls = EmptyBag
    /\ ncalls = 0
    /\ created = <<>>
    /\ sessions = <<>>
    /\ auditLog = <<>>
    /\ usage = NoRows
    /\ done = NoOutcome
    /\ invs = EmptyBag
    /\ ninv = 0
    /\ hooks = {}
    /\ notes = <<>>

InvokeOneAtATime == \E uid \in UsageCallers, m \in UsageMetrics : Invoke(uid, m, 1)

InvokeConcurrently == \E uid \in UsageCallers, m \in UsageMetrics : Invoke(uid, m, MaxInFlight)

FinishInvocation == \E inv \in BagToSet(invs) : Finish(inv)

RecordUsageOnly == \E uid \in UsageCallers \cap Users, m \in UsageMetrics : RecordOnly(uid, m)

CheckUsageLimitOnly == \E uid \in UsageCallers, m \in UsageMetrics : CheckOnly(uid, m)

GetUserUsageOnly == \E uid \in UsageCallers : UsageReport(uid)

\* Invocations that run one after another.
SeqUsageNext == InvokeOneAtATime \/ FinishInvocation \/ AdvanceClock

SeqUsageSpec == UsageInit /\ [][SeqUsageNext]_vars

\* Up to MaxInFlight invocations at a time.
UsageNext == InvokeConcurrently \/ FinishInvocation \/ AdvanceClock

UsageSpec == UsageInit /\ [][UsageNext]_vars

\* Invocations and the usage operations called on their own.
MeterNext ==
    \/ InvokeConcurrently \/ FinishInvocation
    \/ RecordUsageOnly \/ CheckUsageLimitOnly \/ GetUserUsageOnly
    \/ AdvanceClock

MeterSpec == UsageInit /\ [][MeterNext]_vars

----------------------------------------------------------------------------
(* Webhook handlers that notify the identity system: the role upgrade of   *)
(* dispatchJanuaRoleUpgrade and the tier-change notification of            *)
(* notifyJanuaOfTierChange. A handler's storage calls run as in             *)
(* RunHandler; what follows them is one step per await.                    *)

\* A verified webhook request: the event, the product of its first line item
\* (Stripe subscription events) and metadata.orgId (Janua events).
Delivery(ep, event, product, orgId) ==
    [ep |-> ep, event |-> event, product |-> product, orgId |-> orgId]

Deliveries ==
    {Delivery("stripe",
              StripeEvent("evt_1", "customer.subscription.created", "cus_1", "sub_1", "pro",
                          1, 2, 500, "u1"), pr, Null) :
        pr \in {"prod_foundry", "prod_other"}}
    \cup
    {Delivery("stripe",
              StripeEvent("evt_1", "customer.subscription.created", "cus_1", "sub_1", "pro",
                          1, 2, 500, Null), "prod_foundry", Null),
     Delivery("stripe",
              StripeEvent("evt_2", "checkout.session.completed", Null, Null, "essentials",
                          0, 0, 500, "u1"), Null, Null),
     Delivery("stripe",
              StripeEvent("evt_2", "customer.subscription.deleted", "cus_1", "sub_1", "pro",
                          1, 2, 500, Null), Null, Null)}
    \cup
    {Delivery("janua",
              JanuaPayload("evt_3", "subscription.created", TRUE, cus, "pro", "conekta",
                           "active", 0), Null, org) :
        cus \in {"jcus_1", "jcus_x"}, org \in {Null, "org_1"}}

\* What the line-item lookup of handleCheckoutCompleted can give: the product
\* of the first line item, no line item, or a rejection.
LookupOutcomes == {"prod_foundry", "prod_other", Null, "error"}

\* How a fetch to the identity system can settle: 2xx, another status, or a
\* network error.
FetchOutcomes == {"ok", "non2xx", "error"}

\* dispatchJanuaRoleUpgrade up to its await: "fetch" when it posts the role,
\* "skipped" when it returns before (configuration missing, or no role for
\* the product).
dispatchJanuaRoleUpgrade(productId) ==
    IF config.JANUA_API_URL = "" \/ config.JANUA_ADMIN_KEY = "" THEN "skipped"
    ELSE IF productId = Null \/ productId # config.STRIPE_FOUNDRY_PRODUCT_ID THEN "skipped"
    ELSE "fetch"

\* notifyJanuaOfTierChange up to its await.
notifyJanuaOfTierChange(orgId) ==
    IF config.JANUA_API_URL = "" \/ config.DHANAM_WEBHOOK_SECRET = "" THEN "skipped"
    ELSE "fetch"

\* A call site that lets a network error out of its try block.
AfterFetch_rethrows(kind, outcome) ==
    IF outcome = "error" THEN "rejected" ELSE "resolved"

\* The try/catch around the fetch of both functions: every outcome is logged
\* and the function resolves.
AfterFetch(kind, outcome) == "resolved"

\* What a handler at an await remembers: its request, the handler, what its
\* storage calls did, and where it is.
Hook(id, d, h, r, pc) ==
    [id |-> id, ep |-> d.ep, body |-> d.event, h |-> h, pc |-> pc,
     r |-> [lookups |-> r.lookups, found |-> r.found, userWrites |-> r.userWrites,
            rowWrites |-> r.rowWrites, audits |-> r.audits]]

\* A call to the identity system that has been started for request id, by a
\* handler whose storage calls had done r.
Note(kind, id, r) ==
    [kind |-> kind, hook |-> id, state |-> "pending", outcome |-> Null,
     userWrites |-> r.userWrites, rowWrites |-> r.rowWrites]

\* The endpoint answers the request of a handler.
Answer(ep, body, h, r, resp, err) ==
    last' = Answered(ep, body, "good", TRUE, h, r, resp, err)

DispatchFrame ==
    UNCHANGED <<config, clock, calls, ncalls, created, sessions, auditLog, usage, done,
                invs, ninv>>

\* A verified request arrives and its handler runs up to its first await
\* after the storage calls (or to its end).
Deliver(d, fp) ==
    LET h == IF d.ep = "stripe" THEN StripeRoute(d.event.type) ELSE JanuaRoute(d.event.type)
        id == nreq + 1
    IN  /\ nreq < MaxRequests
        /\ nreq' = id
        /\ DispatchFrame
        /\ \E uid \in Targets(users, h, d.event) :
              /\ fp \in CanFail(users, h, d.event, uid)
              /\ LET r == RunHandler(users, ledger, h, d.event, uid, fp)
                     through == r.found /\ ~r.threw
                     role == h = "handleSubscriptionCreated" /\ through
                             /\ d.event.janua_user_id # Null
                             /\ dispatchJanuaRoleUpgrade(d.product) = "fetch"
                     tier == h = "handleJanuaSubscriptionCreated" /\ through
                             /\ d.orgId # Null
                             /\ notifyJanuaOfTierChange(d.orgId) = "fetch"
                     lookup == h = "handleCheckoutCompleted" /\ through
                 IN  /\ users' = r.users
                     /\ ledger' = r.ledger
                     /\ notes' = IF role THEN Append(notes, Note("role", id, r))
                                 ELSE IF tier THEN Append(notes, Note("tier", id, r))
                                 ELSE notes
                     /\ hooks' = IF lookup THEN hooks \cup {Hook(id, d, h, r, "lookup")}
                                 ELSE IF tier THEN hooks \cup {Hook(id, d, h, r, "notify")}
                                 ELSE hooks
                     /\ IF lookup \/ tier THEN last' = last
                        ELSE Answer(d.ep, d.event, h, r,
                                    IF r.threw THEN "nack" ELSE "ack", r.err)

\* handleCheckoutCompleted after await retrieveCheckoutSession: the role
\* dispatch is called and the handler returns.
LookupDone(hk, outcome) ==
    LET productId == IF outcome = "error" THEN Null ELSE outcome
    IN  /\ hk.pc = "lookup"
        /\ hooks' = hooks \ {hk}
        /\ notes' = IF dispatchJanuaRoleUpgrade(productId) = "fetch"
                    THEN Append(notes, Note("role", hk.id, hk.r))
                    ELSE notes
        /\ Answer(hk.ep, hk.body, hk.h, hk.r, "ack", Null)
        /\ UNCHANGED <<users, ledger, nreq>>
        /\ DispatchFrame

\* A fetch to the identity system settles. A handler that awaits it goes on
\* and returns.
Settle(i, outcome) ==
    LET n == notes[i]
        res == AfterFetch(n.kind, outcome)
        waiting == {hk \in hooks : hk.id = n.hook /\ hk.pc = "notify"}
    IN  /\ n.state = "pending"
        /\ notes' = [notes EXCEPT ![i] = [n EXCEPT !.state = res, !.outcome = outcome]]
        /\ hooks' = hooks \ waiting
        /\ IF waiting = {} THEN last' = last
           ELSE \E hk \in waiting :
                   Answer(hk.ep, hk.body, hk.h, hk.r,
                          IF res = "rejected" THEN "nack" ELSE "ack",
                          IF res = "rejected" THEN "fetch failed" ELSE Null)
        /\ UNCHANGED <<users, ledger, nreq>>
        /\ DispatchFrame

DispatchInit ==
    /\ users = [u \in Users |->
                  IF u = "u1"
                  THEN [NewUser EXCEPT !.stripeCustomerId = "cus_1",
                                       !.januaCustomerId = "jcus_1"]
                  ELSE [NewUser EXCEPT !.stripeCustomerId = "cus_2"]]
    /\ ledger = <<>>
    /\ config \in [STRIPE_WEBHOOK_SECRET : {StripeSigningSecret},
                   JANUA_WEBHOOK_SECRET : {JanuaSigningSecret},
                   JANUA_API_KEY : {"jk"}, JANUA_BILLING_ENABLED : {TRUE}, NODE_ENV : {"production"}, TZ : {0},
                   JANUA_API_URL : {"", "https://janua"},
                   JANUA_ADMIN_KEY : {"", "adm"},
                   DHANAM_WEBHOOK_SECRET : {"", "dws"},
                   STRIPE_FOUNDRY_PRODUCT_ID : {"prod_foundry"}]
    /\ clock = 0
    /\ nreq = 0
    /\ last = Answered("none", NoData, "missing", FALSE, "none", Started(users, ledger), Null, Null)
    /\ calls = EmptyBag
    /\ ncalls = 0
    /\ created = <<>>
    /\ sessions = <<>>
    /\ auditLog = <<>>
    /\ usage = NoRows
    /\ done = NoOutcome
    /\ invs = EmptyBag
    /\ ninv = 0
    /\ hooks = {}
    /\ notes = <<>>

DeliverWebhook == \E d \in Deliveries, fp \in FailPoints : Deliver(d, fp)

LineItemsRetrieved == \E hk \in hooks, outcome \in LookupOutcomes : LookupDone(hk, outcome)

FetchSettles == \E i \in 1..Len(notes), outcome \in FetchOutcomes : Settle(i, outcome)

DispatchNext == DeliverWebhook \/ LineItemsRetrieved \/ FetchSettles

DispatchSpec == DispatchInit /\ [][DispatchNext]_vars

----------------------------------------------------------------------------
(* Checkout calls whose caller waits for the provider.                     *)

\* ApiSpec with the steps of the process itself taken eventually: a storage
\* write that was issued completes. The provider's responses are awaited by
\* a fetch that is given no timeout and no abort signal, so nothing obliges
\* the steps that stand for them ever to happen.
FairApiSpec == ApiSpec /\ WF_vars(StoreCustomerId)

----------------------------------------------------------------------------
(* Webhook handlers running concurrently: each handler reads the user row  *)
(* (its findUnique / findFirst), and its writes are issued after that       *)
(* await, with data computed from the row it read.                         *)

\* Requests that race on subscriber u1.
RaceDeliveries ==
    {Delivery("stripe",
              StripeEvent("evt_1", "checkout.session.completed", Null, Null, "essentials",
                          0, 0, 500, "u1"), Null, Null)}
    \cup
    {Delivery("stripe",
              StripeEvent("evt_2", "checkout.session.completed", cus, Null, "pro",
                          0, 0, 500, "u1"), Null, Null) :
        cus \in {Null, "cus_9"}}
    \cup
    {Delivery("stripe",
              StripeEvent("evt_3", "customer.subscription.deleted", "cus_1", "sub_1", "pro",
                          1, 2, 500, Null), Null, Null),
     Delivery("stripe",
              StripeEvent("evt_4", "customer.subscription.updated", "cus_1", "sub_1", "pro",
                          1, 3, 500, Null), Null, Null),
     Delivery("stripe",
              StripeEvent("evt_5", "customer.subscription.created", "cus_x", "sub_1", "pro",
                          1, 2, 500, Null), Null, Null),
     Delivery("janua",
              JanuaPayload("evt_6", "subscription.cancelled", TRUE, "jcus_1", "pro", "polar",
                           "cancelled", 0), Null, Null)}

\* The user rows and the ledger the racing requests start from.
RaceUsers ==
    [u \in Users |->
        IF u = "u1"
        THEN [NewUser EXCEPT !.stripeCustomerId = "cus_1", !.januaCustomerId = "jcus_1",
                             !.subscriptionTier = "pro", !.stripeSubscriptionId = "sub_1"]
        ELSE [NewUser EXCEPT !.stripeCustomerId = "cus_2"]]

RaceLedger == <<>>

\* A handler between its lookup and its writes: the request, the user it
\* found and the row as it read it.
Reader(id, d, h, uid) ==
    [id |-> id, ep |-> d.ep, body |-> d.event, h |-> h, uid |-> uid,
     user |-> users[uid], pc |-> "write"]

\* The handler's lookup: await prisma.user.findUnique / findFirst.
Lookup(d) ==
    LET h == IF d.ep = "stripe" THEN StripeRoute(d.event.type) ELSE JanuaRoute(d.event.type)
        id == nreq + 1
    IN  /\ nreq < MaxRequests
        /\ nreq' = id
        /\ \E uid \in Targets(users, h, d.event) :
              IF uid = Null
              THEN /\ hooks' = hooks
                   /\ Answer(d.ep, d.event, h, RunHandler(users, ledger, h, d.event, Null, "none"),
                             "ack", Null)
              ELSE /\ hooks' = hooks \cup {Reader(id, d, h, uid)}
                   /\ last' = last
        /\ UNCHANGED <<users, ledger, notes>>
        /\ DispatchFrame

\* The handler's writes: await prisma.user.update and billingEvent.create,
\* with the data the handler computed from the row it read.
Write(hk) ==
    LET p == HandlerPlan(hk.h, hk.body, hk.uid, hk.user)
        r == ExecSteps([Started(users, ledger) EXCEPT !.lookups = 1, !.found = TRUE],
                       p.steps, hk.uid, p, "none")
    IN  /\ hk.pc = "write"
        /\ users' = r.users
        /\ ledger' = r.ledger
        /\ hooks' = (hooks \ {hk}) \cup {[hk EXCEPT !.pc = "done"]}
        /\ Answer(hk.ep, hk.body, hk.h, [r EXCEPT !.audits = p.audit],
                  IF r.threw THEN "nack" ELSE "ack", r.err)
        /\ UNCHANGED <<nreq, notes>>
        /\ DispatchFrame

RaceInit ==
    /\ users = RaceUsers
    /\ ledger = RaceLedger
    /\ config \in [STRIPE_WEBHOOK_SECRET : {StripeSigningSecret},
                   JANUA_WEBHOOK_SECRET : {JanuaSigningSecret},
                   JANUA_API_KEY : {"jk"}, JANUA_BILLING_ENABLED : {TRUE}, NODE_ENV : {"production"}, TZ : {0}]
    /\ clock = 0
    /\ nreq = 0
    /\ last = Answered("none", NoData, "missing", FALSE, "none", Started(users, ledger), Null, Null)
    /\ calls = EmptyBag
    /\ ncalls = 0
    /\ created = <<>>
    /\ sessions = <<>>
    /\ auditLog = <<>>
    /\ usage = NoRows
    /\ done = NoOutcome
    /\ invs = EmptyBag
    /\ ninv = 0
    /\ hooks = {}
    /\ notes = <<>>

HandlerLooksUp == \E d \in RaceDeliveries : Lookup(d)

HandlerWrites == \E hk \in hooks : Write(hk)

RaceNext == HandlerLooksUp \/ HandlerWrites

RaceSpec == RaceInit /\ [][RaceNext]_vars

----------------------------------------------------------------------------
(* One purchase: the provider sends a checkout.session.completed and a     *)
(* customer.subscription.created event for it, in either order, and sends  *)
(* an event again when it likes.                                           *)

\* The plan slugs a checkout can be made for.
PurchasePlans == {"essentials", "essentials_yearly", "pro", "pro_yearly"}

\* The two events of u1's purchase of a plan.
PurchaseEvents(plan) ==
    {StripeEvent("evt_1", "checkout.session.completed", "cus_1", "sub_1", plan,
                 0, 0, 500, "u1"),
     StripeEvent("evt_2", "customer.subscription.created", "cus_1", "sub_1", plan,
                 1, 2, 500, Null)}

\* The plan of the purchase whose events are being delivered.
PurchasedPlan == last.body.plan

PurchaseInit ==
    /\ Init
    /\ config.STRIPE_WEBHOOK_SECRET = StripeSigningSecret
    /\ config.JANUA_WEBHOOK_SECRET = JanuaSigningSecret

\* The checkout.session.completed event of the purchase reaches
\* POST /billing/webhook.
CheckoutCompletedDelivered ==
    \E plan \in PurchasePlans, fp \in FailPoints :
        /\ nreq > 0 => plan = PurchasedPlan
        /\ \E e \in PurchaseEvents(plan) :
              e.type = "checkout.session.completed" /\ handleWebhook(e, "good", fp)

\* The customer.subscription.created event of the purchase reaches
\* POST /billing/webhook.
SubscriptionCreatedDelivered ==
    \E plan \in PurchasePlans, fp \in FailPoints :
        /\ nreq > 0 => plan = PurchasedPlan
        /\ \E e \in PurchaseEvents(plan) :
              e.type = "customer.subscription.created" /\ handleWebhook(e, "good", fp)

PurchaseNext == CheckoutCompletedDelivered \/ SubscriptionCreatedDelivered \/ Tick

PurchaseSpec == PurchaseInit /\ [][PurchaseNext]_vars

----------------------------------------------------------------------------
(* The checkout-session requests the two checkout operations build, for a  *)
(* subscriber who already holds a customer id on both billing paths and a  *)
(* provider that answers.                                                  *)

\* Plan slugs, originating products and organization ids a caller can give
\* (Null: not given), and the return_url values of the public checkout.
RequestPlans == {"essentials", "enclii_pro"}
Products == {Null, "enclii"}
OrgIds == {Null, "org_1"}
RequestUrls ==
    {Url(TRUE, <<"app", "dhan", "am">>), Url(TRUE, <<"app", "enclii", "dev">>),
     Url(TRUE, <<"app", "enclii", "com">>)}

\* The metadata object of a checkout-session request; a key that is absent
\* or undefined is Null.
Metadata(userId, janua_user_id, plan, product, orgId, source) ==
    [userId |-> userId, janua_user_id |-> janua_user_id, plan |-> plan,
     product |-> product, orgId |-> orgId, source |-> source]

\* upgradeToPremiumViaJanua: metadata = { userId } plus orgId when given;
\* JanuaBillingService.createCheckoutSession sends
\* { ...params.metadata, product: 'dhanam', orgId: params.orgId }.
januaCheckoutMetadata(uid, orgId) ==
    Metadata(uid, Null, Null, "dhanam", orgId, Null)

\* upgradeToPremiumViaStripe: metadata = { userId, plan } plus orgId when
\* given, with plan = options.plan || 'pro'.
stripeCheckoutMetadata(uid, plan, orgId) ==
    Metadata(uid, Null, IF plan = Null THEN "pro" ELSE plan, Null, orgId, Null)

\* The direct Stripe path of createExternalCheckout:
\* metadata: { janua_user_id: userId, plan, source: 'external' }.
externalCheckoutMetadata(uid, plan) ==
    Metadata(Null, uid, plan, Null, Null, "external")

\* What a caller gave.
RequestArgs(plan, product, orgId, return_url) ==
    [plan |-> plan, product |-> product, orgId |-> orgId, return_url |-> return_url]

\* The checkout-session request is sent and answered: the session exists,
\* the audit entry is written and the call returns.
SendRequest(op, uid, arg, api, customerId, metadata, forwarded) ==
    /\ sessions' = Append(sessions, [api |-> api, customerId |-> customerId,
                                     userId |-> uid, metadata |-> metadata])
    /\ auditLog' = Append(auditLog, [userId |-> uid, action |-> "BILLING_UPGRADE_INITIATED"])
    /\ done' = Outcome(op, uid, arg, "ok", Null,
                       [api |-> api, metadata |-> metadata, forwarded |-> forwarded])

\* The call throws before a request is built.
NoRequest(op, uid, arg, error) ==
    /\ done' = Outcome(op, uid, arg, "error", error, Null)
    /\ UNCHANGED <<sessions, auditLog>>

\* POST /billing/upgrade, from the controller to the return of the service.
upgradeRequest(uid, plan, product, orgId) ==
    LET arg == RequestArgs(plan, product, orgId, NoUrl)
    IN  /\ Started1
        /\ UNCHANGED <<users, calls, created>>
        /\ IF currentRank(users[uid].subscriptionTier) >= requestedRank(plan)
           THEN NoRequest("upgradeToPremium", uid, arg, "User is already on tier")
           ELSE IF isEnabled
           THEN SendRequest("upgradeToPremium", uid, arg, "janua", users[uid].januaCustomerId,
                            januaCheckoutMetadata(uid, orgId), <<>>)
           ELSE SendRequest("upgradeToPremium", uid, arg, "stripe", users[uid].stripeCustomerId,
                            stripeCheckoutMetadata(uid, plan, orgId), <<>>)

\* GET /billing/checkout, from the controller to the redirect. The service
\* method declares (userId, plan, returnUrl): the fourth argument the
\* controller passes is not read.
checkoutRequest(uid, plan, return_url, product) ==
    LET arg == RequestArgs(plan, product, Null, return_url)
        forwarded == <<uid, plan, return_url, product>>
    IN  /\ Started1
        /\ UNCHANGED <<users, calls, created>>
        /\ IF ~return_url.valid
           THEN NoRequest("publicCheckout", uid, arg, "return_url is not a valid URL")
           ELSE IF ~allowedHosts(return_url.host)
           THEN NoRequest("publicCheckout", uid, arg, "return_url host is not allowed")
           ELSE IF isEnabled
           THEN SendRequest("publicCheckout", uid, arg, "janua", users[uid].januaCustomerId,
                            januaCheckoutMetadata(uid, Null), forwarded)
           ELSE SendRequest("publicCheckout", uid, arg, "stripe", users[uid].stripeCustomerId,
                            externalCheckoutMetadata(uid, plan), forwarded)

RequestInit ==
    /\ users = [u \in Users |->
                  IF u = "u1"
                  THEN [NewUser EXCEPT !.stripeCustomerId = "cus_1",
                                       !.januaCustomerId = "jcus_1",
                                       !.billingProvider = "polar"]
                  ELSE [NewUser EXCEPT !.stripeCustomerId = "cus_2"]]
    /\ ledger = <<>>
    /\ config \in [STRIPE_WEBHOOK_SECRET : {StripeSigningSecret},
                   JANUA_WEBHOOK_SECRET : {JanuaSigningSecret},
                   JANUA_API_KEY : {"", "jk"}, JANUA_BILLING_ENABLED : {TRUE}, NODE_ENV : {"production"}, TZ : {0}]
    /\ clock = 0
    /\ nreq = 0
    /\ last = Answered("none", NoData, "missing", FALSE, "none", Started(users, ledger), Null, Null)
    /\ calls = EmptyBag
    /\ ncalls = 0
    /\ created = <<>>
    /\ sessions = <<>>
    /\ auditLog = <<>>
    /\ usage = NoRows
    /\ done = NoOutcome
    /\ invs = EmptyBag
    /\ ninv = 0
    /\ hooks = {}
    /\ notes = <<>>

UpgradeRequested ==
    \E plan \in RequestPlans \cup {Null}, product \in Products, orgId \in OrgIds :
        upgradeRequest("u1", plan, product, orgId)

CheckoutRequested ==
    \E plan \in RequestPlans, return_url \in RequestUrls, product \in Products :
        checkoutRequest("u1", plan, return_url, product)

RequestNext == UpgradeRequested \/ CheckoutRequested

RequestSpec == RequestInit /\ [][RequestNext]_vars

----------------------------------------------------------------------------
(* Checkout with Janua billing switched on or off, and the operations of   *)
(* JanuaBillingService called on their own.                                *)

\* The operations of JanuaBillingService that send a request to Janua.
JanuaOperations ==
    {"createCustomer", "createCheckoutSession", "createPortalSession", "cancelSubscription"}

\* One of them is called: it throws while Janua billing is not enabled;
\* otherwise it sends its request, which succeeds or fails.
januaOperation(op, ok) ==
    /\ Started1
    /\ UNCHANGED <<users, calls, auditLog>>
    /\ IF ~isEnabled
       THEN /\ done' = Outcome(op, Null, NoArgs, "error", "Janua billing not enabled", Null)
            /\ UNCHANGED <<created, sessions>>
       ELSE IF ~ok
       THEN /\ done' = Outcome(op, Null, NoArgs, "error", "Failed", Null)
            /\ UNCHANGED <<created, sessions>>
       ELSE /\ done' = Outcome(op, Null, NoArgs, "ok", Null, Null)
            /\ created' = IF op = "createCustomer"
                          THEN Append(created, [api |-> "janua", userId |-> Null,
                                                id |-> NewCustomerIds[Len(created) + 1],
                                                provider |-> getProviderForCountry("US")])
                          ELSE created
            /\ sessions' = IF op = "createCheckoutSession"
                           THEN Append(sessions, [api |-> "janua", customerId |-> Null,
                                                  priceId |-> "pro", userId |-> Null,
                                                  successUrl |-> NoUrl,
                                                  provider |-> getProviderForCountry("US")])
                           ELSE sessions

\* A new subscriber; Janua billing with or without its flag and its API key.
FallbackInit ==
    /\ users = [u \in Users |->
                  IF u = "u1" THEN NewUser ELSE [NewUser EXCEPT !.stripeCustomerId = "cus_2"]]
    /\ ledger = <<>>
    /\ config \in [STRIPE_WEBHOOK_SECRET : {StripeSigningSecret},
                   JANUA_WEBHOOK_SECRET : {JanuaSigningSecret},
                   JANUA_API_KEY : {"", "jk"}, JANUA_BILLING_ENABLED : BOOLEAN,
                   NODE_ENV : {"production"}, TZ : {0}]
    /\ clock = 0
    /\ nreq = 0
    /\ last = Answered("none", NoData, "missing", FALSE, "none", Started(users, ledger), Null, Null)
    /\ calls = EmptyBag
    /\ ncalls = 0
    /\ created = <<>>
    /\ sessions = <<>>
    /\ auditLog = <<>>
    /\ usage = NoRows
    /\ done = NoOutcome
    /\ invs = EmptyBag
    /\ ninv = 0
    /\ hooks = {}
    /\ notes = <<>>

JanuaOperation == \E op \in JanuaOperations, ok \in BOOLEAN : januaOperation(op, ok)

FallbackNext ==
    \/ UpgradeToPremium \/ PublicCheckout
    \/ CreateCustomer \/ StoreCustomerId \/ CreateCheckoutSession
    \/ JanuaOperation

FallbackSpec == FallbackInit /\ [][FallbackNext]_vars

----------------------------------------------------------------------------
(* The billing SDK's verifyWebhookSignature, on a runtime with the Web      *)
(* Crypto API and on one without it.                                        *)

\* bufferToHex(mac) of the Web Crypto path and digest('hex') of the Node
\* path: the same 64 hex characters for the same secret and body.
sdkExpected(secret, rawBody) == HmacSha256Hex(secret, rawBody)

\* timingSafeEqual of the SDK (a string comparison): false on operands of
\* different length, otherwise whether every character is the same.
sdkTimingSafeEqual(a, b) ==
    IF a.len # b.len THEN "false"
    ELSE IF a.mac = b.mac THEN "true" ELSE "false"

\* A fallback path that compares with the SDK's own helper.
sdkNodeCompare_ownHelper(a, b) == sdkTimingSafeEqual(a, b)

\* crypto.timingSafeEqual(Buffer.from(expected), Buffer.from(signature)) of
\* the Node path.
sdkNodeCompare(a, b) == timingSafeEqual(a, b)

\* verifyWebhookSignature of the SDK: "true", "false", or "throw" when the
\* returned promise rejects.
sdkVerifyWebhookSignature(rawBody, signature, secret) ==
    IF config.RUNTIME = "webcrypto"
    THEN sdkTimingSafeEqual(sdkExpected(secret, rawBody), signature)
    ELSE sdkNodeCompare(sdkExpected(secret, rawBody), signature)

\* The arguments of a verification.
VerifyArgs(rawBody, signature, secret) ==
    [rawBody |-> rawBody, signature |-> signature, secret |-> secret]

\* Bodies received, and the secrets a receiver verifies with.
SdkBodies ==
    {JanuaPayload(id, "subscription.created", TRUE, "jcus_1", "pro", "polar", "active", 0) :
        id \in {"evt_1", "evt_2", "evt_3"}}
SdkSecrets == {JanuaSigningSecret, "other"}

\* A receiver calls verifyWebhookSignature on what it was sent.
sdkVerify(rawBody, sigKind, secret) ==
    LET signature == SignatureOf(sigKind, JanuaSigningSecret, rawBody)
        res == sdkVerifyWebhookSignature(rawBody, signature, secret)
    IN  /\ Started1
        /\ UNCHANGED <<users, calls, created, sessions, auditLog>>
        /\ done' = IF res = "throw"
                   THEN Outcome("verifyWebhookSignature", Null,
                                VerifyArgs(rawBody, signature, secret), "error",
                                "RangeError", Null)
                   ELSE Outcome("verifyWebhookSignature", Null,
                                VerifyArgs(rawBody, signature, secret), "ok", Null,
                                res = "true")

SdkInit ==
    /\ users = [u \in Users |-> NewUser]
    /\ ledger = <<>>
    /\ config \in [STRIPE_WEBHOOK_SECRET : {StripeSigningSecret},
                   JANUA_WEBHOOK_SECRET : {JanuaSigningSecret},
                   JANUA_API_KEY : {"jk"}, JANUA_BILLING_ENABLED : {TRUE},
                   NODE_ENV : {"production"}, TZ : {0},
                   RUNTIME : {"webcrypto", "node"}]
    /\ clock = 0
    /\ nreq = 0
    /\ last = Answered("none", NoData, "missing", FALSE, "none", Started(users, ledger), Null, Null)
    /\ calls = EmptyBag
    /\ ncalls = 0
    /\ created = <<>>
    /\ sessions = <<>>
    /\ auditLog = <<>>
    /\ usage = NoRows
    /\ done = NoOutcome
    /\ invs = EmptyBag
    /\ ninv = 0
    /\ hooks = {}
    /\ notes = <<>>

SdkVerify ==
    \E rawBody \in SdkBodies, sigKind \in SigKinds, secret \in SdkSecrets :
        sdkVerify(rawBody, sigKind, secret)

SdkNext == SdkVerify

SdkSpec == SdkInit /\ [][SdkNext]_vars

----------------------------------------------------------------------------
(* Properties *)

\* C1: a verified event that is delivered again right after it was processed
\* and recorded (same endpoint, same body, its ledger row written), with the
\* database up, is acknowledged and dropped: no Subscriber field and no ledger
\* row changes, and no two ledger rows ever share an event id.
C1_RedeliveryDropped ==
    [][ /\ \A i, j \in 1..Len(ledger') :
              ledger'[i].stripeEventId = ledger'[j].stripeEventId => i = j
        /\ ( ( /\ nreq' = nreq + 1
               /\ last.verified /\ last.resp = "ack" /\ last.rowWrites = 1
               /\ last'.verified
               /\ last'.ep = last.ep
               /\ last'.body = last.body
               /\ last'.err # "Database error" )
             => ( /\ users' = users
                  /\ ledger' = ledger
                  /\ last'.userWrites = 0
                  /\ last'.resp = "ack" ) ) ]_vars

\* C2: a request has an effect only if the endpoint's signing secret is
\* configured and the request carries the provider's signature over its body;
\* any other request reaches no handler and leaves users and ledger as they were.
C2_SignatureIsSoleGate ==
    [][ ( /\ nreq' = nreq + 1
          /\ ~ ( /\ last'.sig = "good"
                 /\ IF last'.ep = "stripe" THEN config.STRIPE_WEBHOOK_SECRET # ""
                    ELSE config.JANUA_WEBHOOK_SECRET # "" ) )
        => ( /\ users' = users
             /\ ledger' = ledger
             /\ last'.handler = "none"
             /\ last'.lookups = 0 /\ last'.userWrites = 0 /\ last'.rowWrites = 0
             /\ last'.resp # "ack" ) ]_vars

\* C2 witness: with the secret configured, a request signed with another key
\* was turned away while the store already holds a tier granted by a verified one.
C2_Witness ==
    /\ last.ep = "janua" /\ last.sig = "wrongkey" /\ last.resp = "nack"
    /\ config.JANUA_WEBHOOK_SECRET # ""
    /\ last.handler = "none"
    /\ users["u1"].subscriptionTier = "pro"

\* C3: when a cancellation is processed for a subscriber who holds a paid
\* tier from a recorded subscription-created event of the same provider
\* (Stripe: the stored subscription id is the cancelled one; Janua: a Janua
\* subscription was created), the subscriber ends at community with a null expiry and a null
\* subscription id, and the ledger holds the cancelled row (amount 0, succeeded).
C3_CancellationClears ==
    [][ \A u \in Users :
          ( /\ nreq' = nreq + 1
            /\ last'.resp = "ack"
            /\ users[u].subscriptionTier # "community"
            /\ \E i \in 1..Len(ledger) :
                  ledger[i].userId = u /\ ledger[i].type = "subscription_created"
            /\ \/ /\ last'.handler = "handleSubscriptionCancelled"
                  /\ users[u].stripeCustomerId = last'.body.customer
                  /\ users[u].stripeSubscriptionId = last'.body.subscription
               \/ /\ last'.handler = "handleJanuaSubscriptionCancelled"
                  /\ users[u].januaCustomerId = last'.body.customer_id
                  /\ users[u].billingProvider # Null )
          => ( /\ users'[u].subscriptionTier = "community"
               /\ users'[u].subscriptionExpiresAt = NullDate
               /\ users'[u].stripeSubscriptionId = Null
               /\ \E i \in 1..Len(ledger') :
                     ledger'[i] = [userId |-> u, type |-> "subscription_cancelled",
                                   amount |-> 0, status |-> "succeeded",
                                   stripeEventId |-> last'.body.id] ) ]_vars

\* C4: a processed subscription-created event leaves its subscriber on the
\* tier of the purchased plan (essentials for an essentials plan, pro for a
\* pro plan) with a succeeded subscription_created row in the ledger; on the
\* Stripe path started-at and expires-at are the period start and end, the
\* subscription id is stored and the row's amount is the unit price.
C4_CreatedGrantsPlanTier ==
    [][ \A u \in Users :
          ( /\ nreq' = nreq + 1
            /\ last'.resp = "ack"
            /\ \/ /\ last'.handler = "handleSubscriptionCreated"
                  /\ users[u].stripeCustomerId = last'.body.customer
               \/ /\ last'.handler = "handleJanuaSubscriptionCreated"
                  /\ users[u].januaCustomerId = last'.body.customer_id )
          => IF last'.ep = "stripe"
             THEN /\ users'[u].subscriptionTier = last'.body.plan
                  /\ users'[u].subscriptionStartedAt
                        = <<last'.body.current_period_start * 1000>>
                  /\ users'[u].subscriptionExpiresAt
                        = <<last'.body.current_period_end * 1000>>
                  /\ users'[u].stripeSubscriptionId = last'.body.subscription
                  /\ ledger' = Append(ledger,
                        [userId |-> u, type |-> "subscription_created",
                         amount |-> last'.body.amount \div 100, status |-> "succeeded",
                         stripeEventId |-> last'.body.id])
             ELSE /\ users'[u].subscriptionTier = last'.body.plan_id
                  /\ \E i \in 1..Len(ledger') :
                        /\ ledger'[i].stripeEventId = last'.body.id
                        /\ ledger'[i].type = "subscription_created"
                        /\ ledger'[i].status = "succeeded" ]_vars

\* C5: a payment-succeeded event for a mapped subscriber changes no Subscriber
\* field; when it is acknowledged the ledger has grown by exactly the
\* payment_succeeded row with the paid amount and status succeeded.
C5_PaymentSucceededLedgerOnly ==
    [][ \A u \in Users :
          ( /\ nreq' = nreq + 1
            /\ \/ /\ last'.handler = "handlePaymentSucceeded"
                  /\ users[u].stripeCustomerId = last'.body.customer
               \/ /\ last'.handler = "handleJanuaPaymentSucceeded"
                  /\ users[u].januaCustomerId = last'.body.customer_id )
          => ( /\ users' = users
               /\ last'.resp = "ack" =>
                    ledger' = Append(ledger,
                        [userId |-> u, type |-> "payment_succeeded",
                         amount |-> IF last'.ep = "stripe"
                                    THEN last'.body.amount \div 100
                                    ELSE last'.body.amount,
                         status |-> "succeeded",
                         stripeEventId |-> last'.body.id]) ) ]_vars

\* C6 as stated: a subscription-updated event for a mapped subscriber leaves
\* the tier as it was and writes no ledger row, on both paths; on the Stripe
\* path expires-at becomes the new period end.
C6_UpdatedKeepsTier ==
    [][ \A u \in Users :
          ( /\ nreq' = nreq + 1
            /\ last'.resp = "ack"
            /\ \/ /\ last'.handler = "handleSubscriptionUpdated"
                  /\ users[u].stripeCustomerId = last'.body.customer
               \/ /\ last'.handler = "handleJanuaSubscriptionUpdated"
                  /\ users[u].januaCustomerId = last'.body.customer_id )
          => ( /\ users'[u].subscriptionTier = users[u].subscriptionTier
               /\ ledger' = ledger
               /\ last'.ep = "stripe" =>
                    users'[u].subscriptionExpiresAt
                        = <<last'.body.current_period_end * 1000>> ) ]_vars

\* C6 amended: a subscription-updated event writes no ledger row on either
\* path. On the Stripe path it sets expires-at to the new period end and
\* changes nothing else of the subscriber. On the Janua path it sets the tier
\* to pro when the reported status is active and to community otherwise, and
\* changes nothing else. No other subscriber changes.
C6_UpdatedPerProvider ==
    [][ \A u \in Users :
          ( /\ nreq' = nreq + 1
            /\ last'.resp = "ack"
            /\ \/ /\ last'.handler = "handleSubscriptionUpdated"
                  /\ users[u].stripeCustomerId = last'.body.customer
               \/ /\ last'.handler = "handleJanuaSubscriptionUpdated"
                  /\ users[u].januaCustomerId = last'.body.customer_id )
          => ( /\ ledger' = ledger
               /\ last'.rowWrites = 0
               /\ \A v \in Users \ {u} : users'[v] = users[v]
               /\ IF last'.ep = "stripe"
                  THEN users'[u] =
                         [users[u] EXCEPT !.subscriptionExpiresAt =
                              <<last'.body.current_period_end * 1000>>]
                  ELSE users'[u] =
                         [users[u] EXCEPT !.subscriptionTier =
                              IF last'.body.status = "active" THEN "pro"
                              ELSE "community"] ) ]_vars

\* C6 witness: a subscriber who got pro from a Janua subscription was put back
\* to community by a Janua subscription-updated event reporting past_due.
C6_Witness ==
    /\ last.handler = "handleJanuaSubscriptionUpdated"
    /\ last.resp = "ack" /\ last.found
    /\ last.body.status = "past_due"
    /\ users["u1"].billingProvider # Null
    /\ users["u1"].subscriptionTier = "community"
    /\ ledger # <<>>

\* C7: a payment-failed event for a mapped subscriber changes no Subscriber
\* field on either path; when it is acknowledged the ledger has grown by
\* exactly the payment_failed row with the amount due and status failed,
\* otherwise the ledger is as it was.
C7_PaymentFailedKeepsTier ==
    [][ \A u \in Users :
          ( /\ nreq' = nreq + 1
            /\ \/ /\ last'.handler = "handlePaymentFailed"
                  /\ users[u].stripeCustomerId = last'.body.customer
               \/ /\ last'.handler = "handleJanuaPaymentFailed"
                  /\ users[u].januaCustomerId = last'.body.customer_id )
          => ( /\ users' = users
               /\ last'.userWrites = 0
               /\ IF last'.resp = "ack"
                  THEN ledger' = Append(ledger,
                          [userId |-> u, type |-> "payment_failed",
                           amount |-> IF last'.ep = "stripe"
                                      THEN last'.body.amount \div 100
                                      ELSE last'.body.amount,
                           status |-> "failed",
                           stripeEventId |-> last'.body.id])
                  ELSE ledger' = ledger ) ]_vars

\* C7 witness: a subscriber on pro had a failed Stripe payment recorded and is
\* still on pro.
C7_Witness ==
    /\ last.handler = "handlePaymentFailed"
    /\ last.resp = "ack" /\ last.found
    /\ users["u1"].subscriptionTier = "pro"
    /\ \E i \in 1..Len(ledger) :
          ledger[i].type = "payment_failed" /\ ledger[i].status = "failed"
          /\ ledger[i].amount = 5

\* C8: checkout completed. Without a subscriber id in the metadata the event is
\* skipped: no lookup, no Subscriber change, no ledger row, acknowledged. With
\* an id of an existing subscriber, an acknowledged event has set the tier to
\* essentials for the plans essentials and essentials_yearly and to pro for
\* pro, pro_yearly, a missing plan and any other plan, and has appended one
\* row with amount = session total and status succeeded.
C8_CheckoutCompleted ==
    [][ ( /\ nreq' = nreq + 1
          /\ last'.handler = "handleCheckoutCompleted" )
        => ( /\ last'.body.janua_user_id = Null =>
                  ( /\ users' = users /\ ledger' = ledger
                    /\ last'.lookups = 0 /\ last'.resp = "ack" )
             /\ ( last'.body.janua_user_id \in Users /\ last'.resp = "ack" ) =>
                  ( /\ users'[last'.body.janua_user_id].subscriptionTier =
                          IF last'.body.plan \in {"essentials", "essentials_yearly"}
                          THEN "essentials" ELSE "pro"
                    /\ ledger' = Append(ledger,
                          [userId |-> last'.body.janua_user_id,
                           type |-> "subscription_created",
                           amount |-> last'.body.amount \div 100,
                           status |-> "succeeded",
                           stripeEventId |-> last'.body.id]) ) ) ]_vars

\* C8 witness: a checkout for the yearly essentials plan has put a subscriber
\* who was on pro onto essentials and left its row in the ledger.
C8_Witness ==
    /\ last.handler = "handleCheckoutCompleted"
    /\ last.resp = "ack" /\ last.found
    /\ last.body.plan = "essentials_yearly"
    /\ users["u1"].subscriptionTier = "essentials"
    /\ users["u1"].stripeSubscriptionId # Null
    /\ \E i \in 1..Len(ledger) :
          ledger[i].stripeEventId = last.body.id /\ ledger[i].amount = 5

\* C9: a verified event of any handled kind whose customer id (or metadata
\* subscriber id) belongs to no subscriber changes no Subscriber field, writes
\* no ledger row, and is acknowledged with received: true.
C9_UnknownCustomerIsNoOp ==
    [][ ( /\ nreq' = nreq + 1
          /\ last'.handler # "none"
          /\ IF last'.ep = "janua"
             THEN \A u \in Users : users[u].januaCustomerId # last'.body.customer_id
             ELSE IF last'.handler = "handleCheckoutCompleted"
             THEN last'.body.janua_user_id \notin Users \cup {Null}
             ELSE \A u \in Users : users[u].stripeCustomerId # last'.body.customer )
        => ( /\ users' = users
             /\ ledger' = ledger
             /\ last'.userWrites = 0 /\ last'.rowWrites = 0
             /\ last'.resp = "ack" ) ]_vars

\* C9 witness: a Janua refund for a customer nobody has was acknowledged while
\* the ledger already held rows, and it added none.
C9_Witness ==
    /\ last.handler = "handleJanuaPaymentRefunded"
    /\ last.verified /\ ~last.found /\ last.lookups = 1
    /\ last.body.customer_id = "jcus_x"
    /\ last.resp = "ack"
    /\ Len(ledger) = 1

\* C10: every request to either webhook endpoint is answered with a structured
\* {received, error?} body; no exception leaves the controller.
C10_NeverThrows ==
    last.resp \in {"ack", "nack"} \/ last.ep = "none"

C12_FreshDelivery ==
    /\ nreq' = nreq + 1
    /\ last'.verified /\ last'.handler # "none"
    /\ last'.err # "Database error"
    /\ \A i \in 1..Len(ledger) : ledger[i].stripeEventId # last'.body.id
    /\ last'.handler = "handleCheckoutCompleted" =>
          \A v \in Users : v # last'.body.janua_user_id =>
                users[v].stripeCustomerId # last'.body.customer

----------------------------------------------------------------------------
(* Properties of the checkout operations and read paths (ApiSpec) *)

\* The calls that started, and are still in progress, in this step.
Entering ==
    IF ncalls' = ncalls + 1
    THEN {c \in BagToSet(calls') : CopiesIn(c, calls') > CopiesIn(c, calls)}
    ELSE {}

\* The calls that took a step (moved on or ended) in this step.
Leaving ==
    IF ncalls' = ncalls
    THEN {c \in BagToSet(calls) : CopiesIn(c, calls') < CopiesIn(c, calls)}
    ELSE {}

\* An API call started and ended within this step.
EndedAtOnce == ncalls' = ncalls + 1 /\ calls' = calls

\* The tier a plan slug stands for: the yearly slug of a tier and a slug
\* prefixed with a product name stand for the tier they name; no slug is pro.
PlanTier(plan) ==
    CASE plan = "essentials" -> "essentials"
      [] plan = "essentials_yearly" -> "essentials"
      [] plan = "dhanam_pro" -> "pro"
      [] OTHER -> "pro"

\* C13: upgradeToPremium lets no call through for a subscriber whose tier rank
\* is at least the rank of the tier the requested plan slug stands for, and a
\* rejected call creates and writes nothing.
C13_TierGate ==
    [][ /\ \A c \in Entering :
              c.op = "upgradeToPremium" =>
                  tierRank(users[c.uid].subscriptionTier) < tierRank(PlanTier(c.plan))
        /\ ( EndedAtOnce /\ done'.op = "upgradeToPremium"
             /\ done'.error = "User is already on tier" )
           => UNCHANGED <<users, created, sessions, auditLog>> ]_vars

\* The return_url values of the model that are on a trusted domain: a host
\* under dhan.am, and localhost outside production.
TrustedReturnUrl(url) ==
    /\ url.valid
    /\ \/ url.host = <<"app", "dhan", "am">>
       \/ url.host = <<"localhost">> /\ config.NODE_ENV = "development"

\* C14: publicCheckout turns away every return_url that does not parse or
\* whose host is not trusted, with a client error and before anything is
\* looked up, created or written; no call with such a return_url is ever in
\* progress; a checkout that completes answers 302 with the URL of the
\* session it just created, for a trusted return_url.
C14_RedirectAllowList ==
    [][ /\ \A c \in Entering :
              c.op = "publicCheckout" => TrustedReturnUrl(c.return_url)
        /\ ( EndedAtOnce /\ done'.op = "publicCheckout"
             /\ ~TrustedReturnUrl(done'.arg.return_url) )
           => ( /\ done'.status = "error"
                /\ done'.error = IF done'.arg.return_url.valid
                                 THEN "return_url host is not allowed"
                                 ELSE "return_url is not a valid URL"
                /\ UNCHANGED <<users, created, sessions, auditLog>> )
        /\ ( EndedAtOnce /\ done'.op = "publicCheckout" /\ done'.uid \in Users )
           => ~TrustedReturnUrl(done'.arg.return_url)
        /\ \A c \in Leaving :
              ( c.op = "publicCheckout" /\ Len(sessions') = Len(sessions) + 1 )
              => ( /\ done'.status = "ok" /\ done'.value.code = 302
                   /\ done'.value.checkoutUrl = Len(sessions')
                   /\ sessions'[Len(sessions')].successUrl = c.return_url
                   /\ TrustedReturnUrl(c.return_url) ) ]_vars

\* C14 witness: a public checkout with a return_url under dhan.am was
\* redirected (302) to the checkout session created for it.
C14_Witness ==
    /\ done.op = "publicCheckout" /\ done.status = "ok"
    /\ done.value.code = 302
    /\ done.arg.return_url.host = <<"app", "dhan", "am">>
    /\ sessions # <<>>

\* The customer id stored for a user on a billing path.
StoredCustomerId(u, via) ==
    IF via = "janua" THEN users[u].januaCustomerId ELSE users[u].stripeCustomerId

\* C15: a checkout call that starts while a customer id is stored for the
\* billing path in use goes straight to the checkout session with that id;
\* the step that requests the session creates no customer, writes no user
\* row and passes the call's customer id to the provider.
C15_CustomerReuse ==
    [][ /\ \A c \in Entering :
              StoredCustomerId(c.uid, c.via) # Null =>
                  ( /\ c.pc = "createCheckoutSession"
                    /\ c.customerId = StoredCustomerId(c.uid, c.via)
                    /\ UNCHANGED <<users, created>> )
        /\ \A c \in Leaving :
              c.pc = "createCheckoutSession" =>
                  ( /\ UNCHANGED <<users, created>>
                    /\ Len(sessions') > Len(sessions) =>
                          sessions'[Len(sessions')].customerId = c.customerId ) ]_vars

\* C15 witness: a checkout completed for a subscriber with a stored Janua
\* customer id: no customer was created and the session carries that id.
C15_Witness ==
    /\ done.status = "ok" /\ done.op = "upgradeToPremium"
    /\ created = <<>>
    /\ Len(sessions) = 1
    /\ sessions[1].api = "janua" /\ sessions[1].customerId = "jcus_1"
    /\ users["u1"].januaCustomerId = "jcus_1"

\* C16: for each subscriber and billing path the provider creates at most one
\* customer, and a stored customer id is never replaced by another id.
C16_OneCustomerPerSubscriber ==
    [][ /\ \A i, j \in 1..Len(created') :
              ( created'[i].userId = created'[j].userId
                /\ created'[i].api = created'[j].api ) => i = j
        /\ \A u \in Users :
              /\ users[u].stripeCustomerId # Null =>
                    users'[u].stripeCustomerId = users[u].stripeCustomerId
              /\ users[u].januaCustomerId # Null =>
                    users'[u].januaCustomerId = users[u].januaCustomerId ]_vars

\* C17: when the provider's customer creation fails, the call ends there with
\* the error; nothing is written to the user, no session is requested and no
\* audit entry is recorded, in that step or later by that call.
C17_CreationFailureLeavesUser ==
    [][ \A c \in Leaving :
          ( c.pc = "createCustomer" /\ created' = created )
          => ( /\ BagCardinality(calls') = BagCardinality(calls) - 1
               /\ done'.op = c.op /\ done'.uid = c.uid
               /\ done'.status = "error" /\ done'.error = "Failed to create customer"
               /\ UNCHANGED <<users, sessions, auditLog>> ) ]_vars

\* C17 witness: an upgrade of a new subscriber ended with the provider's
\* creation error and the subscriber has no customer id and no provider name.
C17_Witness ==
    /\ done.op = "upgradeToPremium" /\ done.status = "error"
    /\ done.error = "Failed to create customer"
    /\ users["u1"].januaCustomerId = Null /\ users["u1"].stripeCustomerId = Null
    /\ users["u1"].billingProvider = Null
    /\ sessions = <<>> /\ auditLog = <<>> /\ calls = EmptyBag

C19_TierOnlyFromWebhooks ==
    [][ /\ \A u \in Users :
              /\ users'[u].subscriptionTier = users[u].subscriptionTier
              /\ users'[u].subscriptionStartedAt = users[u].subscriptionStartedAt
              /\ users'[u].subscriptionExpiresAt = users[u].subscriptionExpiresAt
              /\ users'[u].stripeSubscriptionId = users[u].stripeSubscriptionId
        /\ ledger' = ledger
        /\ usage' # usage => ( EndedAtOnce /\ done'.op = "recordUsage" )
        /\ ( EndedAtOnce
             /\ done'.op \in {"checkUsageLimit", "getUserUsage", "getBillingHistory",
                              "getSubscriptionStatus", "createPortalSession"} )
           => UNCHANGED <<users, usage, created, sessions, auditLog>> ]_vars

\* C19 witness: a checkout has stored a new customer id and provider name for
\* a subscriber whose tier is still community, and the billing history read
\* afterwards is empty.
C19_Witness ==
    /\ done.op = "getBillingHistory" /\ done.uid = "u1" /\ done.value = <<>>
    /\ users["u1"].januaCustomerId = "cus_new1"
    /\ users["u1"].billingProvider = "conekta"
    /\ users["u1"].subscriptionTier = "community"

----------------------------------------------------------------------------
(* The ledger (Spec) *)

\* C20: every step leaves the rows already in the ledger where and as they
\* were; the ledger grows only in the step of a verified webhook request
\* that reached a handler.
C20_LedgerAppendOnly ==
    [][ /\ Len(ledger') >= Len(ledger)
        /\ SubSeq(ledger', 1, Len(ledger)) = ledger
        /\ ledger' # ledger =>
              ( /\ nreq' = nreq + 1
                /\ last'.verified /\ last'.handler # "none"
                /\ last'.rowWrites = 1
                /\ Len(ledger') = Len(ledger) + 1 ) ]_vars

\* C20 witness: two webhook events have each left a row.
C20_Witness ==
    /\ Len(ledger) = 2
    /\ ledger[1].stripeEventId # ledger[2].stripeEventId

----------------------------------------------------------------------------
(* Properties of usage metering (SeqUsageSpec, UsageSpec, MeterSpec) *)

\* The cap that applies to a counter row, given its owner's tier.
CapOf(key) == usageLimits(users[key.userId].subscriptionTier, key.metricType)

\* A cap that is a finite number above zero.
FiniteCap(cap) == cap # Infinity /\ cap > 0

\* A limit check (on its own or at the start of an invocation) happened in
\* this step.
Checked == ninv' = ninv + 1 /\ done'.op \in {"invoke", "checkUsageLimit"}

\* C21: when invocations run one after another, each checking the limit and
\* recording only when allowed, then for a finite cap N > 0 the check is
\* allowed exactly while today's count is below N, it is denied only at
\* count N, every allowed invocation adds one to the count of the day it
\* records on, and no count ever exceeds N.
C21_SequentialCap ==
    [][ /\ \A key \in DOMAIN usage' : FiniteCap(CapOf(key)) => usage'[key] <= CapOf(key)
        /\ ( Checked /\ done'.uid \in Users )
           => LET key == TodayKey(done'.uid, done'.arg.metricType)
              IN  FiniteCap(CapOf(key))
                  => /\ done'.value = (CountOf(usage, key) < CapOf(key))
                     /\ ~done'.value => CountOf(usage, key) = CapOf(key)
        /\ \A inv \in BagToSet(invs) :
              invs' # invs /\ ninv' = ninv
              => LET key == TodayKey(inv.uid, inv.metricType)
                 IN  usage'[key] = CountOf(usage, key) + 1 ]_vars

\* C21 witness: a community subscriber (cap 2 simulations a day) has run two
\* simulations one after another and the third invocation was denied.
C21_Witness ==
    /\ users["u1"].subscriptionTier = "community"
    /\ done.op = "invoke" /\ done.uid = "u1"
    /\ done.arg.metricType = "monte_carlo_simulation"
    /\ done.value = FALSE
    /\ CountOf(usage, TodayKey("u1", "monte_carlo_simulation")) = 2
    /\ ninv >= 3

\* What checkUsageLimit is to answer for a subscriber, a feature and the
\* rows of the table, at the key of the current day.
Entitled(uid, metricType) ==
    IF uid \notin Users THEN FALSE
    ELSE LET tier == users[uid].subscriptionTier
             cap == usageLimits(tier, metricType)
             key == TodayKey(uid, metricType)
             count == IF key \in DOMAIN usage THEN usage[key] ELSE 0
         IN  CASE tier = "pro" -> TRUE
               [] cap = Infinity -> TRUE
               [] cap = 0 -> FALSE
               [] OTHER -> count < cap

\* C22: every limit check answers true for a top-tier subscriber and for an
\* unlimited cap, false for a cap of zero and for a subscriber that does not
\* exist, and otherwise true exactly when today's count (0 without a row) is
\* below the cap; whatever was recorded before.
C22_CheckResult ==
    [][ Checked => done'.value = Entitled(done'.uid, done'.arg.metricType) ]_vars

\* C22 witness: a check for a pro subscriber answered true after three uses
\* had been recorded today.
C22_Witness ==
    /\ users["u1"].subscriptionTier = "pro"
    /\ done.op = "checkUsageLimit" /\ done.uid = "u1" /\ done.value = TRUE
    /\ CountOf(usage, TodayKey("u1", done.arg.metricType)) >= 3

\* A recordUsage call (on its own or at the end of an invocation) happened
\* in this step.
Recorded ==
    \/ ninv' = ninv + 1 /\ done'.op = "recordUsage"
    \/ ninv' = ninv /\ BagCardinality(invs') = BagCardinality(invs) - 1

C24_BoundedOvershoot ==
    \A key \in DOMAIN usage :
        FiniteCap(CapOf(key)) => usage[key] <= CapOf(key) + MaxInFlight

\* C24 witness: the race happened: a community subscriber's simulation count
\* is above its cap of 2.
C24_Witness ==
    /\ users["u1"].subscriptionTier = "community"
    /\ \E key \in DOMAIN usage :
          key.metricType = "monte_carlo_simulation" /\ usage[key] = 3

\* C25: no step lowers a count or removes a row; a row that appears starts at
\* 1; a recordUsage on a later day leaves the rows of earlier days as they
\* were.
C25_CountersMonotone ==
    [][ /\ \A key \in DOMAIN usage :
              key \in DOMAIN usage' /\ usage'[key] >= usage[key]
        /\ \A key \in DOMAIN usage' \ DOMAIN usage :
              /\ usage'[key] = 1
              /\ \A k \in DOMAIN usage : k.date # key.date => usage'[k] = usage[k] ]_vars

\* C25 witness: a feature has a row for each of two days; the later one was
\* created at 1 while the earlier one kept its count of 2.
C25_Witness ==
    \E k1, k2 \in DOMAIN usage :
        /\ k1.userId = k2.userId /\ k1.metricType = k2.metricType
        /\ k1.date < k2.date
        /\ usage[k1] = 2 /\ usage[k2] = 1

\* C26: every counter row that is created carries the UTC calendar day of
\* the instant of the call, and the usage report is dated 00:00 UTC of that
\* day, whatever the server's timezone.
C26_UtcDayKey ==
    [][ /\ \A key \in DOMAIN usage' \ DOMAIN usage : key.date = clock \div SecondsPerDay
        /\ ( ninv' = ninv + 1 /\ done'.op = "getUserUsage" )
           => done'.value.date = (clock \div SecondsPerDay) * SecondsPerDay ]_vars

----------------------------------------------------------------------------
(* Properties of the identity-system notifications (DispatchSpec) *)

\* C27: a call to the identity system is started only by a handler whose
\* tier update and ledger write are done, and the request is answered in the
\* step that starts the call: no handler is left waiting for it.
C27_FireAndForgetLast ==
    [][ Len(notes') > Len(notes)
        => LET n == notes'[Len(notes')]
           IN  /\ n.userWrites = 1 /\ n.rowWrites = 1
               /\ n.hook \notin {hk.id : hk \in hooks'} ]_vars

\* A request was answered in this step.
AnsweredNow ==
    \/ nreq' = nreq + 1 /\ nreq' \notin {hk.id : hk \in hooks'}
    \/ nreq' = nreq /\ hooks' # hooks

\* C28: a step in which the line-item lookup returns or a fetch settles
\* changes no user row and no ledger row, whatever the outcome; every fetch
\* resolves at its call site; and every request whose handler got through its
\* storage calls is answered received: true without an error, whether its
\* dispatch succeeded, failed or was skipped.
C28_DispatchFailuresSwallowed ==
    [][ /\ ( nreq' = nreq /\ (hooks' # hooks \/ notes' # notes) )
           => UNCHANGED <<users, ledger>>
        /\ \A i \in 1..Len(notes') : notes'[i].state \in {"pending", "resolved"}
        /\ ( AnsweredNow /\ last'.found /\ last'.rowWrites = 1 )
           => last'.resp = "ack" /\ last'.err = Null ]_vars

\* C28 witness: the tier-change notification of a Janua subscription.created
\* ended in a network error, and the request was answered received: true with
\* the subscriber on the paid tier and the ledger row written.
C28_Witness ==
    /\ \E i \in 1..Len(notes) :
          notes[i].kind = "tier" /\ notes[i].outcome = "error" /\ notes[i].state = "resolved"
    /\ last.handler = "handleJanuaSubscriptionCreated"
    /\ last.resp = "ack"
    /\ users["u1"].subscriptionTier = "pro"
    /\ Len(ledger) = 1
    /\ hooks = {}

----------------------------------------------------------------------------
(* Checkout calls and the provider (FairApiSpec) *)

\* A checkout call is waiting for the Janua billing API.
AwaitingJanua ==
    \E c \in BagToSet(calls) :
        c.via = "janua" /\ c.pc \in {"createCustomer", "createCheckoutSession"}

\* C29: a checkout call that waits for the provider's answer to a customer
\* creation or a checkout-session request eventually returns to its caller,
\* also when the provider never answers.
C29_CheckoutReturns == AwaitingJanua ~> ~AwaitingJanua

----------------------------------------------------------------------------
(* Concurrent webhook handlers (RaceSpec) *)

\* One handler run from lookup to answer with nothing in between.
Alone(us, lg, hk) ==
    RunHandler(us, lg, hk.h, hk.body, CHOOSE uid \in Targets(us, hk.h, hk.body) : TRUE, "none")

\* The user rows and ledger after handler a, then handler b, each run alone.
OneAfterTheOther(a, b) ==
    LET s1 == Alone(RaceUsers, RaceLedger, a)
        s2 == Alone(s1.users, s1.ledger, b)
    IN  <<s2.users, s2.ledger>>

\* C30: when two webhook handlers for the same subscriber have both
\* finished, the user rows and the ledger are what running the two one
\* after the other, in one of the two orders, leaves.
C30_HandlersSerializable ==
    ( Cardinality(hooks) = 2 /\ nreq = 2 /\ \A hk \in hooks : hk.pc = "done" )
    => \E a, b \in hooks :
          a # b /\ <<users, ledger>> = OneAfterTheOther(a, b)


----------------------------------------------------------------------------
(* Cancellation and the stored subscription id (Spec) *)

\* The request answered in this step ran handler h on a user it found.
Handled(h) ==
    nreq' = nreq + 1 /\ last'.verified /\ last'.handler = h /\ last'.found

\* C31: a customer.subscription.deleted event that names a subscription other
\* than the one stored for its customer leaves that subscriber's tier, expiry
\* and stored subscription id as they were.
C31_CancelOnlyNamed ==
    [][ Handled("handleSubscriptionCancelled")
        => \A u \in Users :
              ( /\ users[u].stripeCustomerId = last'.body.customer
                /\ users[u].stripeSubscriptionId # Null
                /\ users[u].stripeSubscriptionId # last'.body.subscription )
              => /\ users'[u].subscriptionTier = users[u].subscriptionTier
                 /\ users'[u].subscriptionExpiresAt = users[u].subscriptionExpiresAt
                 /\ users'[u].stripeSubscriptionId = users[u].stripeSubscriptionId ]_vars

----------------------------------------------------------------------------
(* One purchase, two events (PurchaseSpec) *)

\* The ledger holds a row for event id.
HasRow(id) == \E i \in 1..Len(ledger) : ledger[i].stripeEventId = id

\* C32: once both events of a purchase have been processed, in whichever
\* order they came, the subscriber is on the tier of the purchased plan.
C32_TierOrderIndependent ==
    ( HasRow("evt_1") /\ HasRow("evt_2") )
    => users["u1"].subscriptionTier = PLAN_TIER_MAP(PurchasedPlan)

----------------------------------------------------------------------------
(* Tier changes and their ledger rows (Spec) *)

\* The handlers whose user.update sets the tier and that write a ledger row.
TierHandlers ==
    {"handleSubscriptionCreated", "handleCheckoutCompleted", "handleSubscriptionCancelled"}

\* C33: whenever a subscription-created, checkout-completed or
\* subscription-cancelled event has changed a subscriber's tier, the ledger
\* holds a row for that event.
C33_TierChangeHasRow ==
    [][ ( /\ nreq' = nreq + 1
          /\ last'.verified
          /\ last'.handler \in TierHandlers
          /\ \E u \in Users : users'[u].subscriptionTier # users[u].subscriptionTier )
        => \E i \in 1..Len(ledger') : ledger'[i].stripeEventId = last'.body.id ]_vars

----------------------------------------------------------------------------
(* Customer ids and the providers behind the Janua API (ApiSpec) *)

\* C34: the customer id of a checkout-session request made through Janua
\* for provider P was created at provider P.
C34_CustomerIdProviderScoped ==
    \A i \in 1..Len(sessions) : \A j \in 1..Len(created) :
        ( sessions[i].api = "janua" /\ created[j].api = "janua"
          /\ created[j].id = sessions[i].customerId )
        => created[j].provider = sessions[i].provider

----------------------------------------------------------------------------
(* The public checkout (ApiSpec) *)

\* C35: the public checkout lets no call through for a subscriber whose tier
\* rank is at least the rank of the tier of the requested plan: such a call
\* is rejected before it reaches a provider.
C35_PublicTierGate ==
    [][ \A c \in Entering :
            c.op = "publicCheckout" =>
                tierRank(users[c.uid].subscriptionTier) < tierRank(PlanTier(c.plan)) ]_vars

----------------------------------------------------------------------------
(* Checkout-session requests (RequestSpec) *)

\* A checkout-session request was sent in this step.
Requested == ncalls' = ncalls + 1 /\ Len(sessions') = Len(sessions) + 1

\* C36: the metadata of every checkout-session request names the subscriber
\* and, for each of them that the caller gave, the plan slug, the originating
\* product and the organization id.
C36_MetadataTagged ==
    [][ Requested
        => LET md == sessions'[Len(sessions')].metadata
               arg == done'.arg
           IN  /\ done'.uid \in {md.userId, md.janua_user_id}
               /\ arg.plan # Null => md.plan = arg.plan
               /\ arg.product # Null => md.product = arg.product
               /\ arg.orgId # Null => md.orgId = arg.orgId ]_vars

\* https://app.enclii.dev/billing as new URL() sees it.
EncliiReturnUrl == Url(TRUE, <<"app", "enclii", "dev">>)

\* C37: a public checkout for plan enclii_pro and product enclii that returns
\* to https://app.enclii.dev/billing passes the host allow-list and hands the
\* service user id, plan, return_url and product as they came.
C37_EncliiCheckoutForwarded ==
    [][ ( /\ ncalls' = ncalls + 1
          /\ done'.op = "publicCheckout"
          /\ done'.arg.return_url = EncliiReturnUrl
          /\ done'.arg.plan = "enclii_pro"
          /\ done'.arg.product = "enclii" )
        => /\ done'.status = "ok"
           /\ done'.value.forwarded = <<done'.uid, "enclii_pro", EncliiReturnUrl, "enclii">> ]_vars

----------------------------------------------------------------------------
(* Dispatch by event type on POST /billing/webhook (Spec) *)

\* The handler an event type is for; "none" for every other type.
HandlerFor ==
    [t \in {"customer.subscription.created", "customer.subscription.updated",
            "customer.subscription.deleted", "invoice.payment_succeeded",
            "invoice.payment_failed", "checkout.session.completed"} |->
        CASE t = "customer.subscription.created" -> "handleSubscriptionCreated"
          [] t = "customer.subscription.updated" -> "handleSubscriptionUpdated"
          [] t = "customer.subscription.deleted" -> "handleSubscriptionCancelled"
          [] t = "invoice.payment_succeeded" -> "handlePaymentSucceeded"
          [] t = "invoice.payment_failed" -> "handlePaymentFailed"
          [] t = "checkout.session.completed" -> "handleCheckoutCompleted"]

\* A verified request to the Stripe endpoint was answered in this step.
VerifiedStripeRequest ==
    nreq' = nreq + 1 /\ last'.ep = "stripe" /\ last'.verified

\* The request answered in this step went to the handler of its event type
\* and to no other, once; an event of another type went to no handler.
DispatchedByType ==
    /\ last'.handler = ( IF last'.body.type \in DOMAIN HandlerFor
                         THEN HandlerFor[last'.body.type] ELSE "none" )
    /\ last'.lookups <= 1 /\ last'.userWrites <= 1 /\ last'.rowWrites <= 1
    /\ last'.handler = "none"
          => ( last'.lookups = 0 /\ users' = users /\ ledger' = ledger )

\* C38 as stated: every verified event goes to the handler of its type, once,
\* and is answered received: true; an event of another type goes to no
\* handler and is answered received: true.
C38_DispatchByType ==
    [][ VerifiedStripeRequest => ( DispatchedByType /\ last'.resp = "ack" ) ]_vars

\* C38 amended: every verified event goes to the handler of its type, once;
\* it is answered received: true when the handler returns and received: false
\* with the error's message when the handler throws. An event of another
\* type goes to no handler and is answered received: true.
C38_DispatchAnswers ==
    [][ VerifiedStripeRequest
        => /\ DispatchedByType
           /\ last'.err = Null => last'.resp = "ack"
           /\ last'.err # Null => ( last'.resp = "nack" /\ last'.handler # "none" )
           /\ last'.handler = "none" => last'.resp = "ack" ]_vars

\* C38 witness: after an earlier event was recorded, a verified
\* checkout.session.completed event went to handleCheckoutCompleted, which
\* wrote its row, and was answered received: true.
C38_Witness ==
    /\ last.ep = "stripe" /\ last.verified
    /\ last.body.type = "checkout.session.completed"
    /\ last.handler = "handleCheckoutCompleted"
    /\ last.rowWrites = 1 /\ last.resp = "ack"
    /\ Len(ledger) = 2

----------------------------------------------------------------------------
(* Janua billing on and off (FallbackSpec) *)

\* Janua billing is not enabled: its flag is off or it has no API key.
NotEnabled == ~config.JANUA_BILLING_ENABLED \/ config.JANUA_API_KEY = ""

\* The billing path checkouts take.
PathInUse == IF NotEnabled THEN "stripe" ELSE "janua"

\* C39: while Janua billing is not enabled every checkout takes the direct
\* Stripe path, sends nothing to Janua and reports provider stripe; while it
\* is enabled a checkout creates no Stripe customer and no Stripe session;
\* and an operation of JanuaBillingService called while it is not enabled
\* throws 'Janua billing not enabled' and sends nothing.
C39_BrokerFallback ==
    [][ /\ \A c \in Entering : c.via = PathInUse
        /\ \A c \in Leaving : c.via = PathInUse
        /\ Len(created') > Len(created) => created'[Len(created')].api = PathInUse
        /\ Len(sessions') > Len(sessions) => sessions'[Len(sessions')].api = PathInUse
        /\ ( Leaving # {} /\ NotEnabled /\ Len(sessions') > Len(sessions) )
           => done'.value.provider = "stripe"
        /\ ( EndedAtOnce /\ done'.op \in JanuaOperations /\ NotEnabled )
           => ( /\ done'.status = "error"
                /\ done'.error = "Janua billing not enabled"
                /\ UNCHANGED <<created, sessions>> ) ]_vars

\* C39 witness: with the API key set and the flag off, a checkout created its
\* customer and its session at Stripe and returned provider stripe, and a
\* direct call of a Janua operation was refused.
C39_Witness ==
    /\ config.JANUA_API_KEY = "jk" /\ ~config.JANUA_BILLING_ENABLED
    /\ Len(created) = 1 /\ created[1].api = "stripe"
    /\ Len(sessions) = 1 /\ sessions[1].api = "stripe"
    /\ done.op \in JanuaOperations
    /\ done.error = "Janua billing not enabled"

----------------------------------------------------------------------------
(* The SDK's signature verification (SdkSpec) *)

\* C40: on either runtime verifyWebhookSignature returns, without throwing,
\* whether the signature is the hex HMAC-SHA256 of the raw body under the
\* secret.
C40_SdkVerifyUniform ==
    done.op = "verifyWebhookSignature"
    => /\ done.status = "ok"
       /\ done.value = ( done.arg.signature
                         = HmacSha256Hex(done.arg.secret, done.arg.rawBody) )

====
